---- MODULE Spec2Model ----
(***************************************************************************)
(* State-machine model of the core of webull-rs: the token lifecycle       *)
(* (src/src/auth.rs), the response cache (src/src/utils/cache.rs), the     *)
(* sliding-window rate limiter (src/src/utils/rate_limit.rs), the request  *)
(* dispatcher (src/src/endpoints/base.rs) and the streaming supervisor     *)
(* (src/src/streaming/client.rs).                                          *)
(*                                                                         *)
(* Every component has a specification of its own (SpecAuth, SpecCache,    *)
(* SpecRate, SpecDispatch, SpecStream); all share the clock `now`.         *)
(* Time is counted in seconds.  Option<T> is a sequence: <<>> is None and  *)
(* <<x>> is Some(x).                                                       *)
(***************************************************************************)
EXTENDS Integers, Sequences, FiniteSets, TLC

VARIABLES
    now,            \* the clock (Utc::now() / Instant::now()), in seconds
    \* ---- AuthManager (auth.rs)
    tokenStore,     \* MemoryTokenStore.token : Option<AccessToken>
    credentials,    \* AuthManager.credentials : Option<Credentials>
    authRes,        \* the last AuthManager / TokenStore call and its outcome
    scn,            \* observer of the token lifecycle scenario
    client,         \* WebullClient: whether there is one, and its CredentialStore
    tsCalls,        \* the threads calling the MemoryTokenStore concurrently
    \* ---- ResponseCache (utils/cache.rs)
    cache,          \* ResponseCache.cache : HashMap<CacheKey, CacheEntry<T>>
    maxEntries,     \* ResponseCache.max_entries
    defaultTtl,     \* ResponseCache.default_ttl
    cacheRes,       \* the last ResponseCache call and its outcome
    registry,       \* CacheManager.caches : the type of the cache registered under a name
    \* ---- RateLimiter (utils/rate_limit.rs)
    rpm,            \* RateLimiter.requests_per_minute
    timestamps,     \* RateLimiter.timestamps : endpoint -> Vec<Instant>
    poisoned,       \* whether a panic under the lock has poisoned the Mutex
    waiter,         \* per caller: where it is within wait(endpoint)
    \* ---- BaseEndpoint (endpoints/base.rs)
    dsp,            \* the dispatcher call in progress
    dspRes,         \* the last dispatcher call and its outcome
    \* ---- WebSocketClient (streaming/client.rs)
    connState,      \* connection_state
    attempts,       \* reconnect_attempts
    eventSender,    \* event_sender: the channel whose Sender the client keeps (0: None)
    disc,           \* where a disconnect() call is
    sup,            \* per connect() call: the supervisor task it spawned
    hb,             \* per channel: the heartbeat tasks alive (each holds a Sender)
    chan,           \* per channel: the receiver and what was sent to it
    accepts,        \* handshakes the server has accepted
    afterDisc,      \* observer: what happened since a disconnect() of a Connected client returned
    lastHeartbeat,  \* last_heartbeat: the time of the last activity
    wire,           \* observer, per supervisor: the latest turn of the read loop on its socket
    watch,          \* what the observers keep of the events and frames they see
    subRes          \* the subscribe / unsubscribe call that has just returned, if any

None == <<>>
Some(x) == <<x>>
IsSome(o) == o # <<>>
Unwrap(o) == o[1]

\* ------------------------------------------------------------------ bounds

\* The clock stops at MaxTime; it advances in steps drawn from TickSteps.
MaxTime == 90
TickSteps == {30}

\* ------------------------------------------------------------------ clock

Times == 0..MaxTime

\* ====================================================================
\* AuthManager and MemoryTokenStore (auth.rs)
\* ====================================================================

\* What the login / refresh / logout server may answer.
Tokens == {"t1", "t2"}
RefreshTokens == {"r1"}
ExpiresIn == {0, 60}
Statuses == {200, 401, 429, 500}
ErrorBodies == {"boom"}

\* reqwest's StatusCode::is_success: 200..=299
IsSuccess(status) == status >= 200 /\ status <= 299

\* The outcome of one HTTP exchange of the AuthManager:
\*   transport = FALSE : send() failed
\*   bodyReadable = FALSE : response.text() failed
\*   json = Some(r) : the body decodes as {access_token, refresh_token, expires_in}
NoJson == None
AuthOutcomes ==
    {[transport |-> FALSE, status |-> 0, bodyReadable |-> FALSE, text |-> "", json |-> NoJson]}
    \cup { [transport |-> TRUE, status |-> s, bodyReadable |-> FALSE, text |-> "", json |-> NoJson]
             : s \in Statuses }
    \cup { [transport |-> TRUE, status |-> s, bodyReadable |-> TRUE, text |-> b, json |-> NoJson]
             : s \in Statuses, b \in ErrorBodies }
    \cup { [transport |-> TRUE, status |-> 200, bodyReadable |-> TRUE, text |-> "json",
            json |-> Some([access_token |-> t, refresh_token |-> r, expires_in |-> e])]
             : t \in Tokens, r \in RefreshTokens, e \in ExpiresIn }

AccessToken(t, exp, rt) == [token |-> t, expires_at |-> exp, refresh_token |-> rt]

\* Tokens a caller may put into the store directly (TokenStore::store_token).
StorableTokens ==
    { AccessToken(t, e, rt) : t \in Tokens, e \in {30, 90},
                              rt \in {None} \cup {Some(r) : r \in RefreshTokens} }

TheCredentials == [username |-> "u1", password |-> "p1"]

\* WebullResult values
Ok(v) == [kind |-> "Ok", code |-> "", message |-> "", value |-> Some(v)]
OkUnit == [kind |-> "Ok", code |-> "", message |-> "", value |-> None]
Err(k) == [kind |-> k, code |-> "", message |-> "", value |-> None]
ApiError(c, m) == [kind |-> "ApiError", code |-> c, message |-> m, value |-> None]

\* Without the 429 branch every status but 401 is an ApiError.
StatusErrorGeneric(out) ==
    LET text == IF out.bodyReadable THEN out.text ELSE "Unknown error"
    IN  IF out.status = 401 THEN Err("Unauthorized")
        ELSE ApiError(ToString(out.status), text)

\* The status branch shared by authenticate, multi_factor_auth and refresh_token:
\* 401 -> Unauthorized, 429 -> RateLimitExceeded, else ApiError{status, text}
StatusError(out) ==
    LET text == IF out.bodyReadable THEN out.text ELSE "Unknown error"
    IN  IF out.status = 401 THEN Err("Unauthorized")
        ELSE IF out.status = 429 THEN Err("RateLimitExceeded")
        ELSE ApiError(ToString(out.status), text)

\* The exchange of authenticate / refresh_token from send() to the created token:
\* the result, and the content of the token store afterwards.
TokenExchange(out, store, t) ==
    IF ~out.transport THEN [res |-> Err("NetworkError"), store |-> store]
    ELSE IF ~IsSuccess(out.status) THEN [res |-> StatusError(out), store |-> store]
    ELSE IF ~out.bodyReadable THEN [res |-> Err("NetworkError"), store |-> store]
    ELSE IF out.json = NoJson THEN [res |-> Err("SerializationError"), store |-> store]
    ELSE LET j == Unwrap(out.json)
             tok == AccessToken(j.access_token, t + j.expires_in, Some(j.refresh_token))
         IN  [res |-> Ok(tok), store |-> Some(tok)]

\* AuthManager::get_token: the stored token unless it is absent or expired.
GetTokenResultStrict(store, t) ==
    IF store = None THEN Err("Unauthorized")
    ELSE IF Unwrap(store).expires_at < t THEN Err("Unauthorized")
    ELSE Ok(Unwrap(store))

GetTokenResult(store, t) ==
    IF store = None THEN Err("Unauthorized")
    ELSE IF Unwrap(store).expires_at <= t THEN Err("Unauthorized")
    ELSE Ok(Unwrap(store))

\* AuthManager::refresh_token, the precondition: a stored token with a refresh token.
RefreshPreconditionLax(store) == store # None

RefreshPrecondition(store) ==
    store # None /\ Unwrap(store).refresh_token # None

\* AuthManager::multi_factor_auth, the precondition: credentials recorded by
\* an authenticate call on this manager.
MfaPreconditionNone(creds) == TRUE

MfaPrecondition(creds) == creds # None

\* AuthManager::revoke_token, the branch on the logout response:
\* 2xx and 401 clear, everything else fails.
RevokeOutcomeSwallowAll(out) ==
    IF ~out.transport THEN Err("NetworkError") ELSE OkUnit

RevokeOutcome(out) ==
    IF ~out.transport THEN Err("NetworkError")
    ELSE IF IsSuccess(out.status) \/ out.status = 401 THEN OkUnit
    ELSE IF out.status = 429 THEN Err("RateLimitExceeded")
    ELSE ApiError(ToString(out.status),
                  IF out.bodyReadable THEN out.text ELSE "Unknown error")

\* The record of one call: what was called, when, on which state, what the
\* network answered (net = number of HTTP requests sent) and the result.
NoOutcome == [transport |-> FALSE, status |-> 0, bodyReadable |-> FALSE, text |-> "", json |-> NoJson]
Call(op, res, net, out) ==
    [op |-> op, res |-> res, net |-> net, out |-> out, at |-> now,
     storeBefore |-> tokenStore, credsBefore |-> credentials]

\* ------------------------------------------------ the scenario observer
\* stage 0: nothing yet; 1: authenticate returned token tok, valid at that time;
\* 2: get_token was called while tok was unexpired; 3: get_token was called
\* once the clock had passed tok.expires_at; 4: refresh_token then succeeded
\* with the new token tok; 5: get_token was called while the new token was
\* unexpired.  ok records whether each of those calls did what the scenario
\* says.  Any other call that writes the store ends the scenario.
ScnIdle == [stage |-> 0, tok |-> None, old |-> None, ok |-> TRUE]

ScnStep(call, storeAfter) ==
    LET valid(tk) == tk.expires_at > call.at
    IN
    IF call.op = "authenticate" THEN
        IF call.res.kind = "Ok" /\ valid(Unwrap(call.res.value))
        THEN [stage |-> 1, tok |-> call.res.value, old |-> None, ok |-> TRUE]
        ELSE ScnIdle
    ELSE IF call.op = "get_token" THEN
        CASE scn.stage \in {1, 2} /\ valid(Unwrap(scn.tok)) ->
                [scn EXCEPT !.stage = 2, !.ok = (call.res = Ok(Unwrap(scn.tok)))]
          [] scn.stage \in {1, 2, 3} /\ ~valid(Unwrap(scn.tok)) ->
                [scn EXCEPT !.stage = IF scn.stage = 1 THEN 0 ELSE 3,
                            !.ok = (call.res = Err("Unauthorized"))]
          [] scn.stage \in {4, 5} /\ valid(Unwrap(scn.tok)) ->
                [scn EXCEPT !.stage = 5, !.ok = (call.res = Ok(Unwrap(scn.tok)))]
          [] OTHER -> IF scn.ok THEN ScnIdle ELSE scn
    ELSE IF call.op = "refresh_token" THEN
        IF scn.stage = 3 /\ call.out.transport /\ IsSuccess(call.out.status)
                         /\ call.out.bodyReadable /\ call.out.json # NoJson
        THEN LET j == Unwrap(call.out.json)
                 new == AccessToken(j.access_token, call.at + j.expires_in,
                                    Some(j.refresh_token))
             IN  IF call.res = Ok(new) /\ storeAfter = Some(new)
                 THEN IF valid(new)
                      THEN [stage |-> 4, tok |-> Some(new), old |-> scn.tok, ok |-> TRUE]
                      ELSE ScnIdle
                 ELSE [scn EXCEPT !.ok = FALSE]
        ELSE IF scn.ok /\ storeAfter # call.storeBefore THEN ScnIdle ELSE scn
    ELSE IF scn.ok /\ storeAfter # call.storeBefore THEN ScnIdle ELSE scn

\* ------------------------------------------------ the operations

\* AuthManager::authenticate(username, password)
Authenticate ==
    \E out \in AuthOutcomes :
        LET x == TokenExchange(out, tokenStore, now)
            call == Call("authenticate", x.res, 1, out)
        IN  /\ credentials' = Some(TheCredentials)
            /\ tokenStore' = x.store
            /\ authRes' = call
            /\ scn' = ScnStep(call, x.store)
            /\ UNCHANGED now

\* AuthManager::multi_factor_auth(mfa_code)
MultiFactorAuth ==
    IF ~MfaPrecondition(credentials)
    THEN LET call == Call("multi_factor_auth", Err("InvalidRequest"), 0, NoOutcome)
         IN  /\ authRes' = call
             /\ scn' = ScnStep(call, tokenStore)
             /\ UNCHANGED <<now, tokenStore, credentials>>
    ELSE \E out \in AuthOutcomes :
            LET x == TokenExchange(out, tokenStore, now)
                call == Call("multi_factor_auth", x.res, 1, out)
            IN  /\ tokenStore' = x.store
                /\ authRes' = call
                /\ scn' = ScnStep(call, x.store)
                /\ UNCHANGED <<now, credentials>>

\* AuthManager::refresh_token()
RefreshToken ==
    IF ~RefreshPrecondition(tokenStore)
    THEN LET call == Call("refresh_token", Err("InvalidRequest"), 0, NoOutcome)
         IN  /\ authRes' = call
             /\ scn' = ScnStep(call, tokenStore)
             /\ UNCHANGED <<now, tokenStore, credentials>>
    ELSE \E out \in AuthOutcomes :
            LET x == TokenExchange(out, tokenStore, now)
                call == Call("refresh_token", x.res, 1, out)
            IN  /\ tokenStore' = x.store
                /\ authRes' = call
                /\ scn' = ScnStep(call, x.store)
                /\ UNCHANGED <<now, credentials>>

\* AuthManager::get_token()
GetToken ==
    LET call == Call("get_token", GetTokenResult(tokenStore, now), 0, NoOutcome)
    IN  /\ authRes' = call
        /\ scn' = ScnStep(call, tokenStore)
        /\ UNCHANGED <<now, tokenStore, credentials>>

\* AuthManager::revoke_token()
RevokeToken ==
    IF tokenStore = None
    THEN LET call == Call("revoke_token", OkUnit, 0, NoOutcome)
         IN  /\ credentials' = None
             /\ authRes' = call
             /\ scn' = ScnStep(call, tokenStore)
             /\ UNCHANGED <<now, tokenStore>>
    ELSE \E out \in AuthOutcomes :
            LET res == RevokeOutcome(out)
                call == Call("revoke_token", res, 1, out)
                cleared == res.kind = "Ok"
                store == IF cleared THEN None ELSE tokenStore
            IN  /\ tokenStore' = store
                /\ credentials' = IF cleared THEN None ELSE credentials
                /\ authRes' = call
                /\ scn' = ScnStep(call, store)
                /\ UNCHANGED now

\* TokenStore::store_token(token), called on the manager's public token_store
StoreToken ==
    \E tok \in StorableTokens :
        LET call == Call("store_token", OkUnit, 0, NoOutcome)
        IN  /\ tokenStore' = Some(tok)
            /\ authRes' = call
            /\ scn' = ScnStep(call, Some(tok))
            /\ UNCHANGED <<now, credentials>>

\* TokenStore::clear_token()
ClearToken ==
    LET call == Call("clear_token", OkUnit, 0, NoOutcome)
    IN  /\ tokenStore' = None
        /\ authRes' = call
        /\ scn' = ScnStep(call, None)
        /\ UNCHANGED <<now, credentials>>

\* ------------------------------------------------ WebullClient (client.rs)

\* client: present = FALSE for an AuthManager used on its own; else tokenStore
\* is the token store of the client's auth_manager and credentials is the
\* content of its credential_store.
NoClient == [present |-> FALSE, credentials |-> None]
Client(creds) == [present |-> TRUE, credentials |-> creds]

\* the `?` after auth_manager.authenticate(..).await in login: only an Ok
\* goes on to store the token and the credentials
LoginStoresAlways(res) == TRUE

LoginStores(res) == res.kind = "Ok"

\* WebullClient::login(username, password): authenticate on a new
\* AuthManager with a token store of its own, then store the token and the
\* credentials in the client's stores
Login ==
    /\ client.present
    /\ \E out \in AuthOutcomes :
          LET x == TokenExchange(out, None, now)
              res == IF x.res.kind = "Ok" THEN OkUnit ELSE x.res
              call == Call("login", res, 1, out)
          IN  /\ authRes' = call
              /\ IF LoginStores(x.res)
                 THEN /\ tokenStore' = x.store
                      /\ client' = Client(Some(TheCredentials))
                 ELSE UNCHANGED <<tokenStore, client>>
              /\ scn' = ScnStep(call, tokenStore')
    /\ UNCHANGED <<now, credentials, tsCalls>>

\* the early return of logout when the client's token store is empty
LogoutReturnsEarly(store) == store = None

\* WebullClient::logout(): revoke_token on a new AuthManager holding a copy of
\* the client's token, then clear the client's token and credentials
Logout ==
    /\ client.present
    /\ IF LogoutReturnsEarly(tokenStore)
       THEN LET call == Call("logout", OkUnit, 0, NoOutcome)
            IN  /\ authRes' = call
                /\ scn' = ScnStep(call, tokenStore)
                /\ UNCHANGED <<tokenStore, client>>
       ELSE \E out \in AuthOutcomes :
               LET res == RevokeOutcome(out)
                   call == Call("logout", res, 1, out)
                   cleared == res.kind = "Ok"
               IN  /\ authRes' = call
                   /\ tokenStore' = IF cleared THEN None ELSE tokenStore
                   /\ client' = IF cleared THEN Client(None) ELSE client
                   /\ scn' = ScnStep(call, tokenStore')
    /\ UNCHANGED <<now, credentials, tsCalls>>

\* WebullClient::refresh_token(): refresh_token on a new AuthManager holding a
\* copy of the client's token, then store the new token in the client's store
ClientRefreshToken ==
    /\ client.present
    /\ IF ~RefreshPrecondition(tokenStore)
       THEN LET call == Call("client_refresh_token", Err("InvalidRequest"), 0, NoOutcome)
            IN  /\ authRes' = call
                /\ scn' = ScnStep(call, tokenStore)
                /\ UNCHANGED tokenStore
       ELSE \E out \in AuthOutcomes :
               LET x == TokenExchange(out, tokenStore, now)
                   res == IF x.res.kind = "Ok" THEN OkUnit ELSE x.res
                   call == Call("client_refresh_token", res, 1, out)
               IN  /\ authRes' = call
                   /\ tokenStore' = x.store
                   /\ scn' = ScnStep(call, x.store)
    /\ UNCHANGED <<now, credentials, client, tsCalls>>

\* CredentialStore::store_credentials, through WebullClient::credential_store()
StoreCredentials ==
    /\ client.present
    /\ client' = Client(Some(TheCredentials))
    /\ authRes' = Call("store_credentials", OkUnit, 0, NoOutcome)
    /\ UNCHANGED <<now, tokenStore, credentials, scn, tsCalls>>

\* ------------------------------------------------ MemoryTokenStore, concurrently

\* Bound: the number of threads that call the token store concurrently.
NumThreads == 2
TsThreads == 1..NumThreads
TsTokens == { AccessToken(t, 90, None) : t \in Tokens }

\* tsCalls.threads[p]: where thread p is in its call; stale is the content of
\* the slot when the call began.  tsCalls.last is what the latest store_token
\* in the order of the lock wrote, None when a clear_token came after it.
TsIdle == [pc |-> "idle", op |-> "", arg |-> None, res |-> None, stale |-> None]

\* self.token.lock().unwrap().clone(): the slot as it is under the lock
SlotReadStale(slot, stale) == stale

SlotRead(slot, stale) == slot

\* a thread calls store_token(token), get_token() or clear_token()
TsInvoke(p) ==
    /\ tsCalls.threads[p].pc = "idle"
    /\ \E op \in {"store_token", "get_token", "clear_token"} :
          \E arg \in IF op = "store_token" THEN {Some(t) : t \in TsTokens} ELSE {None} :
             tsCalls' = [tsCalls EXCEPT !.threads[p] =
                           [pc |-> "called", op |-> op, arg |-> arg, res |-> None,
                            stale |-> tokenStore]]
    /\ UNCHANGED <<now, tokenStore, credentials, authRes, scn, client>>

\* the thread holds the mutex: the body of the call
TsLocked(p) ==
    LET c == tsCalls.threads[p]
    IN  /\ c.pc = "called"
        /\ tokenStore' = IF c.op = "store_token" THEN c.arg
                         ELSE IF c.op = "clear_token" THEN None
                         ELSE tokenStore
        /\ tsCalls' = [threads |-> [tsCalls.threads EXCEPT ![p] =
                                      [c EXCEPT !.pc = "returned", !.stale = None,
                                                !.res = IF c.op = "get_token"
                                                        THEN SlotRead(tokenStore, c.stale)
                                                        ELSE None]],
                       last |-> IF c.op = "store_token" THEN c.arg
                                ELSE IF c.op = "clear_token" THEN None
                                ELSE tsCalls.last]
        /\ UNCHANGED <<now, credentials, authRes, scn, client>>

\* the call returns to the thread
TsReturn(p) ==
    /\ tsCalls.threads[p].pc = "returned"
    /\ tsCalls' = [tsCalls EXCEPT !.threads[p] = TsIdle]
    /\ UNCHANGED <<now, tokenStore, credentials, authRes, scn, client>>

NoTsCalls == [threads |-> [p \in TsThreads |-> TsIdle], last |-> None]

authVars == <<tokenStore, credentials, authRes, scn, client, tsCalls>>

\* AuthManager::new with MemoryTokenStore::default()
InitAuthVars ==
    /\ tokenStore = None
    /\ credentials = None
    /\ authRes = [op |-> "new", res |-> OkUnit, net |-> 0, out |-> NoOutcome, at |-> 0,
                  storeBefore |-> None, credsBefore |-> None]
    /\ scn = ScnIdle
    /\ client = NoClient
    /\ tsCalls = NoTsCalls

\* ====================================================================
\* ResponseCache (utils/cache.rs)
\* ====================================================================

\* Bounds of the cache model: the configured capacities are 0..MaxCap.
MaxCap == 2

Methods == {"GET", "POST"}
\* CacheKey::new(method, url, query, body)
CacheKey(m, u, q, b) == [method |-> m, url |-> u, query |-> q, body |-> b]
CacheKeys ==
    { CacheKey("GET", "/a", None, None),
      CacheKey("GET", "/b", None, None),
      CacheKey("POST", "/a", None, Some("x")) }
CacheValues == {"v1", "v2"}
\* the ttl argument of set: None takes the cache's default_ttl
TtlArgs == {None, Some(0), Some(60)}
DefaultTtls == {30}

\* CacheEntry::new(value, ttl) at time t
CacheEntry(v, ttl, t) == [value |-> v, created_at |-> t, ttl |-> ttl]

\* CacheEntry::is_expired: created_at.elapsed() > ttl
IsExpiredEager(e, t) == t - e.created_at >= e.ttl

IsExpired(e, t) == t - e.created_at > e.ttl

\* c without the keys in ks
Without(c, ks) == [k \in (DOMAIN c) \ ks |-> c[k]]

ExpiredKeys(c, t) == {k \in DOMAIN c : IsExpired(c[k], t)}

\* ResponseCache::get: the value of an unexpired entry; an expired one is removed.
CacheGet(c, k, t) ==
    IF k \in DOMAIN c
    THEN IF IsExpired(c[k], t)
         THEN [res |-> None, cache |-> Without(c, {k})]
         ELSE [res |-> Some(c[k].value), cache |-> c]
    ELSE [res |-> None, cache |-> c]

Min(a, b) == IF a <= b THEN a ELSE b

\* Without the sort, take(n) picks any n entries.
OldestSetsAnyOrder(c, n) ==
    { R \in SUBSET (DOMAIN c) : Cardinality(R) = Min(n, Cardinality(DOMAIN c)) }

\* The sets of keys that `sort_by_key(created_at)` followed by take(n) may pick:
\* n entries none of which is younger than an entry left behind (the order of
\* entries created at the same instant is that of the HashMap's iteration).
OldestSets(c, n) ==
    { R \in SUBSET (DOMAIN c) :
        /\ Cardinality(R) = Min(n, Cardinality(DOMAIN c))
        /\ \A r \in R, s \in (DOMAIN c) \ R : c[r].created_at <= c[s].created_at }

\* ResponseCache::set, the eviction that precedes the insert: the caches that
\* may result.  Without the second check (the mutant) only expired entries go.
AfterEvictionExpiredOnly(c, cap, t) ==
    IF Cardinality(DOMAIN c) >= cap THEN {Without(c, ExpiredKeys(c, t))} ELSE {c}

AfterEviction(c, cap, t) ==
    IF Cardinality(DOMAIN c) >= cap
    THEN LET purged == Without(c, ExpiredKeys(c, t))
         IN  IF Cardinality(DOMAIN purged) >= cap
             THEN LET to_remove == Cardinality(DOMAIN purged) - cap + 1
                  IN  { Without(purged, R) : R \in OldestSets(purged, to_remove) }
             ELSE {purged}
    ELSE {c}

\* cache.insert(key, entry)
Insert(c, k, e) == [x \in (DOMAIN c) \cup {k} |-> IF x = k THEN e ELSE c[x]]

EmptyCache == [k \in {} |-> None]
NoKey == CacheKey("", "", None, None)
CacheCall(op, k, v, ttl, res) ==
    [op |-> op, key |-> k, value |-> v, ttl |-> ttl, res |-> res, at |-> now]

\* ResponseCache::get(method, url, query, body)
Get ==
    \E k \in CacheKeys :
        LET g == CacheGet(cache, k, now)
        IN  /\ cache' = g.cache
            /\ cacheRes' = CacheCall("get", k, "", 0, g.res)
            /\ UNCHANGED <<maxEntries, defaultTtl, registry>>

\* ResponseCache::set(method, url, query, body, value, ttl)
Set ==
    \E k \in CacheKeys, v \in CacheValues, ta \in TtlArgs :
        LET ttl == IF ta = None THEN defaultTtl ELSE Unwrap(ta)
        IN  \E c \in AfterEviction(cache, maxEntries, now) :
                /\ cache' = Insert(c, k, CacheEntry(v, ttl, now))
                /\ cacheRes' = CacheCall("set", k, v, ttl, None)
                /\ UNCHANGED <<maxEntries, defaultTtl, registry>>

\* ResponseCache::clear()
Clear ==
    /\ cache' = EmptyCache
    /\ cacheRes' = CacheCall("clear", NoKey, "", 0, None)
    /\ UNCHANGED <<maxEntries, defaultTtl, registry>>

\* ResponseCache::cleanup()
Cleanup ==
    /\ cache' = Without(cache, ExpiredKeys(cache, now))
    /\ cacheRes' = CacheCall("cleanup", NoKey, "", 0, None)
    /\ UNCHANGED <<maxEntries, defaultTtl, registry>>

cacheVars == <<cache, maxEntries, defaultTtl, cacheRes, registry>>

\* CacheManager::new: no cache is registered under any name
NoCaches == [get |-> "none", post |-> "none"]

\* ResponseCache::new(default_ttl, max_entries)
InitCacheVars ==
    /\ cache = EmptyCache
    /\ maxEntries \in 0..MaxCap
    /\ defaultTtl \in DefaultTtls
    /\ cacheRes = [op |-> "new", key |-> NoKey, value |-> "", ttl |-> 0, res |-> None, at |-> 0]
    /\ registry = NoCaches

\* a cache that is not used
IdleCacheVars ==
    /\ cache = EmptyCache
    /\ maxEntries = 0
    /\ defaultTtl = 0
    /\ cacheRes = [op |-> "new", key |-> NoKey, value |-> "", ttl |-> 0, res |-> None, at |-> 0]
    /\ registry = NoCaches

\* ====================================================================
\* RateLimiter (utils/rate_limit.rs)
\* ====================================================================

\* Bounds of the limiter model: NumCallers concurrent callers of wait, and
\* configured budgets 0..MaxRpm.
NumCallers == 2
MaxRpm == 1

\* Duration::from_secs(60), the length of the sliding window
Window == 60

Callers == 1..NumCallers
Endpoints == {"/a", "/b"}

\* Instant::duration_since saturates at zero
DurationSince(t, earlier) == IF t >= earlier THEN t - earlier ELSE 0

\* Vec::retain(|t| now.duration_since(*t) < 60s)
RECURSIVE Retain(_, _)
Retain(ts, t) ==
    IF ts = <<>> THEN <<>>
    ELSE IF DurationSince(t, Head(ts)) < Window
         THEN <<Head(ts)>> \o Retain(Tail(ts), t)
         ELSE Retain(Tail(ts), t)

\* The locked block of wait (lines 40-58) for a caller that read the clock at t:
\* the new list of the endpoint, and either the time to wait, or admission, or
\* the panic of indexing an empty list (requests_per_minute = 0).
WaitDecisionRecheck(ts, t, limit) ==
    LET kept == Retain(ts, t)
    IN  IF Len(kept) >= limit
        THEN IF kept = <<>>
             THEN [ts |-> kept, verdict |-> "panic", wait |-> 0]
             ELSE [ts |-> kept, verdict |-> "wait",
                   wait |-> Window - DurationSince(t, kept[Len(kept)])]
        ELSE [ts |-> Append(kept, t), verdict |-> "admit", wait |-> 0]

WaitDecision(ts, t, limit) ==
    LET kept == Retain(ts, t)
    IN  IF Len(kept) >= limit
        THEN IF kept = <<>>
             THEN [ts |-> kept, verdict |-> "panic", wait |-> 0]
             ELSE [ts |-> kept, verdict |-> "wait",
                   wait |-> Window - DurationSince(t, kept[1])]
        ELSE [ts |-> Append(kept, t), verdict |-> "admit", wait |-> 0]

\* A caller of wait: where it is, its key, the clock value it read, the end of
\* its sleep; and, as an observer, the callers that were already suspended on
\* the same key when it took the lock and have not left since.
\* timestamps.entry(endpoint), lines 43 and 67: the list of the caller's own key
EndpointTimestampsShared(tss, e) == tss["/a"]

EndpointTimestamps(tss, e) == tss[e]

IdleWaiter == [pc |-> "idle", endpoint |-> "", t0 |-> 0, wakeAt |-> 0, ahead |-> {}]

\* caller p enters wait(e)
Entered(p, e) == [pc |-> "entered", endpoint |-> e, t0 |-> now, wakeAt |-> 0, ahead |-> {}]

\* the callers other than p that are suspended on key e
Suspended(p, e) ==
    {q \in DOMAIN waiter \ {p} : waiter[q].pc = "sleeping" /\ waiter[q].endpoint = e}

\* caller p leaves wait and becomes w
Left(p, w) ==
    [q \in DOMAIN waiter |-> IF q = p THEN w ELSE [waiter[q] EXCEPT !.ahead = @ \ {p}]]

\* wait(endpoint), line 37: the caller reads the clock
WaitStart(p) ==
    /\ waiter[p].pc = "idle"
    /\ \E e \in Endpoints :
          waiter' = [waiter EXCEPT ![p] = Entered(p, e)]
    /\ UNCHANGED <<rpm, timestamps, poisoned>>

\* wait(endpoint), lines 40-58: under the lock, admit or compute the wait;
\* lock().unwrap() panics on a poisoned Mutex
WaitLocked(p) ==
    /\ waiter[p].pc = "entered"
    /\ IF poisoned
       THEN /\ waiter' = Left(p, [IdleWaiter EXCEPT !.pc = "panicked"])
            /\ UNCHANGED <<rpm, timestamps, poisoned>>
       ELSE LET w == waiter[p]
                d == WaitDecision(EndpointTimestamps(timestamps, w.endpoint), w.t0, rpm)
            IN  /\ timestamps' = [timestamps EXCEPT ![w.endpoint] = d.ts]
                /\ poisoned' = (d.verdict = "panic")
                /\ waiter' =
                      CASE d.verdict = "admit" -> Left(p, IdleWaiter)
                        [] d.verdict = "wait" ->
                             [waiter EXCEPT ![p] = [w EXCEPT !.pc = "sleeping", !.t0 = 0,
                                                             !.wakeAt = now + d.wait,
                                                             !.ahead = Suspended(p, w.endpoint)]]
                        [] OTHER -> Left(p, [IdleWaiter EXCEPT !.pc = "panicked"])
                /\ UNCHANGED rpm

\* wait(endpoint), lines 61-69: the sleep is over (tokio's sleep ends at the
\* deadline or later); push Instant::now() under the lock
WaitWake(p) ==
    /\ waiter[p].pc = "sleeping"
    /\ now >= waiter[p].wakeAt
    /\ IF poisoned
       THEN /\ waiter' = Left(p, [IdleWaiter EXCEPT !.pc = "panicked"])
            /\ UNCHANGED <<rpm, timestamps, poisoned>>
       ELSE /\ timestamps' = [timestamps EXCEPT ![waiter[p].endpoint] =
                                Append(EndpointTimestamps(timestamps, waiter[p].endpoint), now)]
            /\ waiter' = Left(p, IdleWaiter)
            /\ UNCHANGED <<rpm, poisoned>>

\* the caller's task ended by the panic; another task calls wait
WaitAfterPanic(p) ==
    /\ waiter[p].pc = "panicked"
    /\ waiter' = [waiter EXCEPT ![p] = IdleWaiter]
    /\ UNCHANGED <<rpm, timestamps, poisoned>>

rateVars == <<rpm, timestamps, poisoned, waiter>>

\* RateLimiter::new(requests_per_minute)
InitRateVars ==
    /\ rpm \in 0..MaxRpm
    /\ timestamps = [e \in Endpoints |-> <<>>]
    /\ poisoned = FALSE
    /\ waiter = [p \in Callers |-> IdleWaiter]

\* a limiter that is not used
IdleRateVars ==
    /\ rpm = 0
    /\ timestamps = [e \in Endpoints |-> <<>>]
    /\ poisoned = FALSE
    /\ waiter = [p \in Callers |-> IdleWaiter]

\* the admissions recorded for endpoint e that lie in the trailing window at t
InWindow(e, t) ==
    Cardinality({i \in 1..Len(timestamps[e]) :
                    timestamps[e][i] <= t /\ t - timestamps[e][i] < Window})

\* ====================================================================
\* BaseEndpoint, the request dispatcher (endpoints/base.rs)
\* ====================================================================

\* Bound of the dispatcher model: the number of calls made.
MaxCalls == 2

\* RateLimiter::new(60) in BaseEndpoint::new
DefaultRpm == 60

\* A header value: whether to_str() accepts it, and its characters.
HeaderValue(visible, chars) == [visible |-> visible, chars |-> chars]
RetryAfterHeaders ==
    { None,
      Some(HeaderValue(TRUE, <<"3">>)),
      Some(HeaderValue(TRUE, <<"3", "0">>)),
      Some(HeaderValue(TRUE, <<"0">>)),
      Some(HeaderValue(TRUE, <<>>)),
      Some(HeaderValue(TRUE, <<"x">>)),
      Some(HeaderValue(TRUE, <<"-", "1">>)),
      Some(HeaderValue(FALSE, <<"3">>)) }

Digits == {"0", "1", "2", "3", "4", "5", "6", "7", "8", "9"}
DigitValue(c) ==
    CASE c = "0" -> 0 [] c = "1" -> 1 [] c = "2" -> 2 [] c = "3" -> 3 [] c = "4" -> 4
      [] c = "5" -> 5 [] c = "6" -> 6 [] c = "7" -> 7 [] c = "8" -> 8 [] c = "9" -> 9

\* str::parse::<u64>: an optional '+', then one or more decimal digits
\* (overflow is out of reach of the values modelled)
RECURSIVE DecimalValue(_, _)
DecimalValue(chars, acc) ==
    IF chars = <<>> THEN acc
    ELSE DecimalValue(Tail(chars), 10 * acc + DigitValue(Head(chars)))

ParseU64(chars) ==
    LET digits == IF chars # <<>> /\ Head(chars) = "+" THEN Tail(chars) ELSE chars
    IN  IF digits # <<>> /\ \A i \in 1..Len(digits) : digits[i] \in Digits
        THEN Some(DecimalValue(digits, 0))
        ELSE None

\* lines 79-83: headers().get("retry-after").and_then(to_str).and_then(parse).unwrap_or(1)
RetryAfterDefaultZero(header) ==
    IF header = None THEN 0
    ELSE IF ~Unwrap(header).visible THEN 0
    ELSE LET n == ParseU64(Unwrap(header).chars)
         IN  IF n = None THEN 0 ELSE Unwrap(n)

RetryAfter(header) ==
    IF header = None THEN 1
    ELSE IF ~Unwrap(header).visible THEN 1
    ELSE LET n == ParseU64(Unwrap(header).chars)
         IN  IF n = None THEN 1 ELSE Unwrap(n)

\* The body of a 2xx response, as JSON: whether it is a JSON object at all, the
\* names of its fields and their values ("null" is the JSON null).  A payload
\* is an object with a field "id".
Payloads == {"d1"}
Lists == {"l1"}
Json(fields, success, data, code, message, id) ==
    [valid |-> TRUE, fields |-> fields, success |-> success, data |-> data,
     code |-> code, message |-> message, id |-> id]
NotJson == [valid |-> FALSE, fields |-> {}, success |-> FALSE, data |-> "",
            code |-> "", message |-> "", id |-> ""]
EmptyObject == Json({}, FALSE, "", "", "", "")
BarePayload(d) == Json({"id"}, FALSE, "", "", "", d)
JsonBodies ==
    { Json({"success", "data"}, TRUE, d, "", "", "") :
        d \in Payloads \cup Lists \cup {"null"} }
    \cup { BarePayload(d) : d \in Payloads }
    \cup { Json({"success"}, TRUE, "", "", "", ""),
           Json({"success", "code", "message"}, FALSE, "", "X1", "bad", ""),
           Json({"success"}, FALSE, "", "", "", ""),
           EmptyObject }

\* ApiResponse<T> as decoded
Envelope(success, data, code, message) ==
    [envelope |-> TRUE, success |-> success, data |-> data, code |-> code,
     message |-> message]
NotAnEnvelope == [envelope |-> FALSE, success |-> FALSE, data |-> None, code |-> None,
                  message |-> None]

\* The types T the order endpoints ask for: a payload struct (Order), a list
\* of them (Vec<Order>), or ().
ResultTypes == {"Payload", "List", "Unit"}

\* the type a JSON value of the model decodes as: an array as a list, an
\* object as a payload struct
DataType(d) == IF d \in Lists THEN "List" ELSE "Payload"

\* Option<T>::deserialize of the field `data`: absent or null is None; an
\* object decodes as a payload struct, an array as a list, neither as ().
DataDecodes(type, j) ==
    ("data" \in j.fields /\ j.data # "null") => type = DataType(j.data)
DecodeData(j) ==
    IF "data" \in j.fields /\ j.data # "null" THEN Some(j.data) ELSE None

\* serde_json::from_str::<ApiResponse<T>>: the field `success` is required, the
\* other three are optional, unknown fields are ignored.
ParseApiResponse(type, j) ==
    IF ~j.valid \/ "success" \notin j.fields \/ ~DataDecodes(type, j)
    THEN NotAnEnvelope
    ELSE Envelope(j.success, DecodeData(j),
                  IF "code" \in j.fields THEN Some(j.code) ELSE None,
                  IF "message" \in j.fields THEN Some(j.message) ELSE None)

\* What the server may answer to the dispatcher: transport = FALSE when send()
\* failed, bodyReadable = FALSE when response.text() failed.  `body` is filled
\* in when the dispatcher decodes `json`.
Response(status, header, readable, text, json) ==
    [transport |-> TRUE, status |-> status, retryAfter |-> header,
     bodyReadable |-> readable, text |-> text, json |-> json, body |-> NotAnEnvelope]
NoResponse ==
    [transport |-> FALSE, status |-> 0, retryAfter |-> None, bodyReadable |-> FALSE,
     text |-> "", json |-> NotJson, body |-> NotAnEnvelope]
DispatchOutcomes ==
    {NoResponse}
    \cup { Response(429, h, TRUE, "slow down", NotJson) : h \in RetryAfterHeaders }
    \cup { Response(st, None, r, "boom", NotJson) : st \in {401, 404, 500}, r \in BOOLEAN }
    \cup { Response(200, None, TRUE, "json", j) : j \in JsonBodies }
    \cup { Response(201, None, TRUE, "json", Json({"success", "data"}, TRUE, d, "", "", "")) :
             d \in Payloads }
    \cup { Response(200, None, FALSE, "", NotJson) }

\* line 108: the response with its body decoded as ApiResponse<T>
Decoded(type, out) == [out EXCEPT !.body = ParseApiResponse(type, out.json)]

\* send_request with the check of the success flag left out
ClassifyIgnoringSuccess(out) ==
    IF out.status = 401 THEN Err("Unauthorized")
    ELSE IF ~out.bodyReadable THEN Err("NetworkError")
    ELSE IF ~IsSuccess(out.status) THEN ApiError(ToString(out.status), out.text)
    ELSE IF ~out.body.envelope THEN Err("SerializationError")
    ELSE IF out.body.data = None
         THEN ApiError("no_data", "Response did not contain data")
    ELSE Ok(Unwrap(out.body.data))

\* send_request, lines 91-123: the result for a response that is not a 429
Classify(out) ==
    IF out.status = 401 THEN Err("Unauthorized")
    ELSE IF ~out.bodyReadable THEN Err("NetworkError")
    ELSE IF ~IsSuccess(out.status) THEN ApiError(ToString(out.status), out.text)
    ELSE IF ~out.body.envelope THEN Err("SerializationError")
    ELSE IF ~out.body.success
         THEN ApiError(IF out.body.code = None THEN "unknown" ELSE Unwrap(out.body.code),
                       IF out.body.message = None THEN "Unknown error"
                       ELSE Unwrap(out.body.message))
    ELSE IF out.body.data = None
         THEN ApiError("no_data", "Response did not contain data")
    ELSE Ok(Unwrap(out.body.data))

\* the caller of the rate limiter that the dispatcher is
Dispatcher == 1

\* The calls made on a BaseEndpoint: get, post, put and delete for a type T, as
\* the order endpoints make them (delete::<()> is cancel_order), and
\* send_request with a request built by the caller.
Request(method, type) == [method |-> method, type |-> type]
Direct == Request("", "Payload")
Requests ==
    { Request(m, "Payload") : m \in {"GET", "POST", "PUT", "DELETE"} }
    \cup { Request("GET", "List"), Request("DELETE", "Unit") }
PostBody == "x"

\* the key get and post look up and store under
RequestKey(req, path) ==
    IF req.method = "GET" THEN CacheKey("GET", path, None, None)
    ELSE CacheKey("POST", path, None, Some(PostBody))
Cached(req) == req.method \in {"GET", "POST"}

\* The `?` after authenticate_request(request).await: an Err returns from the call.
PropagatesNever(res) == FALSE

Propagates(res) == res.kind # "Ok"

\* The caches "get" and "post" of the CacheManager, kept in one map: their keys
\* differ in the method.  put clears the cache "get", delete clears both.
Invalidated(c, req) ==
    IF req.method = "PUT" THEN Without(c, {k \in DOMAIN c : k.method = "GET"})
    ELSE IF req.method = "DELETE" THEN EmptyCache
    ELSE c

\* the name of the cache that holds a key
NameOf(method) == IF method = "GET" THEN "get" ELSE "post"
EntriesOf(c, name) == {k \in DOMAIN c : NameOf(k.method) = name}

\* CacheManager::get_cache::<T>(name): the registered cache when it is a
\* ResponseCache<T>; else a new, empty cache that is registered in its place
GetCacheAnyType(c, reg, name, type) ==
    [cache |-> c, registry |-> [reg EXCEPT ![name] = type]]

GetCache(c, reg, name, type) ==
    IF reg[name] = type
    THEN [cache |-> c, registry |-> reg]
    ELSE [cache |-> Without(c, EntriesOf(c, name)),
          registry |-> [reg EXCEPT ![name] = type]]

\* the registry after the get_cache calls at the end of a successful call
RegistryAfter(reg, req) ==
    IF req.method = "PUT" THEN [reg EXCEPT !.get = req.type]
    ELSE IF req.method = "DELETE" THEN [get |-> req.type, post |-> req.type]
    ELSE reg

\* cache.set(method, path, None, body, response, Some(60s)) of get and post
ResponseTtl == 60
Stored(c, req, path, res) ==
    IF Cached(req)
    THEN { Insert(e, RequestKey(req, path),
                  CacheEntry(Unwrap(res.value), ResponseTtl, now)) :
             e \in AfterEviction(c, maxEntries, now) }
    ELSE {Invalidated(c, req)}

\* dsp: where the one call in progress is.  bearer is the token put into the
\* Authorization header, sent the number of HTTP requests sent so far.
IdleDispatch == [pc |-> "idle", req |-> Direct, path |-> "", bearer |-> None,
                 out |-> NoResponse, sent |-> 0, sentAt |-> 0, sleep |-> 0,
                 wakeAt |-> 0]

\* dspRes: the last call that returned.  op is "send_request" when the result
\* was produced by send_request, else the step that returned: "cache" for a
\* hit, "authenticate_request" for a failed token lookup.
DispatchCall(op, req, path, res, out, sent, sleep, sentAt) ==
    [op |-> op, req |-> req, path |-> path, res |-> res, out |-> out, sent |-> sent,
     sleep |-> sleep, sentAt |-> sentAt, at |-> now, n |-> dspRes.n + 1]

\* no call has returned since the one in progress began (n calls returned before)
NoDispatchCall(n) ==
    [op |-> "new", req |-> Direct, path |-> "", res |-> OkUnit, out |-> NoResponse,
     sent |-> 0, sleep |-> 0, sentAt |-> 0, at |-> 0, n |-> n]

\* get/post/put/delete up to the call of send_request: the cache lookup of
\* get and post, authenticate_request (get_token), and the entry into
\* rate_limiter.wait(path) at the head of send_request
CallStart ==
    /\ dsp.pc = "idle"
    /\ dspRes.n < MaxCalls
    /\ waiter[Dispatcher].pc = "idle"
    /\ \E req \in Requests, path \in Endpoints :
          LET gc == IF Cached(req)
                    THEN GetCache(cache, registry, NameOf(req.method), req.type)
                    ELSE [cache |-> cache, registry |-> registry]
              g == IF Cached(req) THEN CacheGet(gc.cache, RequestKey(req, path), now)
                   ELSE [res |-> None, cache |-> cache]
              token == GetTokenResult(tokenStore, now)
          IN  /\ cache' = g.cache
              /\ registry' = gc.registry
              /\ IF g.res # None
                 THEN /\ dspRes' = DispatchCall("cache", req, path, Ok(Unwrap(g.res)),
                                                NoResponse, 0, 0, now)
                      /\ UNCHANGED <<dsp, waiter>>
                 ELSE IF Propagates(token)
                 THEN /\ dspRes' = DispatchCall("authenticate_request", req, path, token,
                                                NoResponse, 0, 0, now)
                      /\ UNCHANGED <<dsp, waiter>>
                 ELSE /\ dsp' = [IdleDispatch EXCEPT
                                   !.pc = "wait", !.req = req, !.path = path,
                                   !.bearer = IF token.kind = "Ok"
                                              THEN Some(Unwrap(token.value).token)
                                              ELSE None]
                      /\ waiter' = [waiter EXCEPT ![Dispatcher] = Entered(Dispatcher, path)]
                      /\ dspRes' = NoDispatchCall(dspRes.n)
    /\ UNCHANGED <<rpm, timestamps, poisoned, maxEntries, defaultTtl, cacheRes>>

\* send_request, lines 58-69: take the path and enter rate_limiter.wait(path)
SendRequestStart ==
    /\ dsp.pc = "idle"
    /\ dspRes.n < MaxCalls
    /\ waiter[Dispatcher].pc = "idle"
    /\ \E path \in Endpoints :
          /\ dsp' = [IdleDispatch EXCEPT !.pc = "wait", !.path = path]
          /\ waiter' = [waiter EXCEPT ![Dispatcher] = Entered(Dispatcher, path)]
          /\ dspRes' = NoDispatchCall(dspRes.n)
    /\ UNCHANGED <<rpm, timestamps, poisoned, cacheVars>>

\* send_request, lines 71-123, and the tail of get/post/put/delete: wait has
\* returned; send, and classify the answer.  A 429 starts the sleep of
\* retry-after seconds; an Ok is cached by get and post and clears caches in
\* put and delete.
SendRequestSend ==
    /\ dsp.pc = "wait"
    /\ waiter[Dispatcher].pc = "idle"
    /\ \E answer \in DispatchOutcomes :
          LET out == Decoded(dsp.req.type, answer)
              res == Classify(out)
          IN  IF ~out.transport
              THEN /\ dspRes' = DispatchCall("send_request", dsp.req, dsp.path,
                                             Err("NetworkError"), out, dsp.sent + 1, 0, now)
                   /\ dsp' = IdleDispatch
                   /\ UNCHANGED <<cache, registry>>
              ELSE IF out.status = 429
              THEN /\ dsp' = [dsp EXCEPT !.pc = "sleep429", !.out = out, !.sentAt = now,
                                         !.sent = dsp.sent + 1,
                                         !.sleep = RetryAfter(out.retryAfter),
                                         !.wakeAt = now + RetryAfter(out.retryAfter)]
                   /\ UNCHANGED <<dspRes, cache, registry>>
              ELSE /\ dspRes' = DispatchCall("send_request", dsp.req, dsp.path, res,
                                             out, dsp.sent + 1, 0, now)
                   /\ dsp' = IdleDispatch
                   /\ IF res.kind = "Ok" /\ dsp.req # Direct
                      THEN /\ cache' \in Stored(cache, dsp.req, dsp.path, res)
                           /\ registry' = RegistryAfter(registry, dsp.req)
                      ELSE UNCHANGED <<cache, registry>>
    /\ UNCHANGED <<rateVars, maxEntries, defaultTtl, cacheRes>>

\* WebullClient::accounts/market_data/orders/watchlists: the handle the next
\* calls are made through is a new BaseEndpoint, with a RateLimiter and a
\* CacheManager of its own
ObtainHandle ==
    /\ dsp.pc = "idle"
    /\ waiter[Dispatcher].pc = "idle"
    /\ cache' = EmptyCache
    /\ registry' = NoCaches
    /\ timestamps' = [e \in Endpoints |-> <<>>]
    /\ poisoned' = FALSE
    /\ UNCHANGED <<rpm, waiter, maxEntries, defaultTtl, cacheRes, dsp, dspRes>>

\* send_request that sends the request again when the sleep is over
SendRequestAfter429Resend ==
    /\ dsp.pc = "sleep429"
    /\ now >= dsp.wakeAt
    /\ dsp' = [dsp EXCEPT !.pc = "wait"]
    /\ UNCHANGED <<dspRes, rateVars, cacheVars>>

\* send_request, lines 85-88: the sleep is over; fail with RateLimitExceeded
SendRequestAfter429 ==
    /\ dsp.pc = "sleep429"
    /\ now >= dsp.wakeAt
    /\ dspRes' = DispatchCall("send_request", dsp.req, dsp.path, Err("RateLimitExceeded"),
                              dsp.out, dsp.sent, dsp.sleep, dsp.sentAt)
    /\ dsp' = IdleDispatch
    /\ UNCHANGED <<rateVars, cacheVars>>

dspVars == <<dsp, dspRes>>

\* BaseEndpoint::new
InitDispatchVars ==
    /\ dsp = IdleDispatch
    /\ dspRes = NoDispatchCall(0)

\* The caches a CacheManager creates: default_ttl 60 s, max_entries 1000
ManagedTtl == 60
ManagedMaxEntries == 1000
InitDispatchCacheVars ==
    /\ cache = EmptyCache
    /\ maxEntries = ManagedMaxEntries
    /\ defaultTtl = ManagedTtl
    /\ cacheRes = [op |-> "new", key |-> NoKey, value |-> "", ttl |-> 0, res |-> None, at |-> 0]
    /\ registry = NoCaches

\* The AuthManager the dispatcher asks for the token: nobody has logged in, or
\* a token is stored that expires at the end of the run.
DispatchTokens == { AccessToken("t1", e, None) : e \in {90} }
InitDispatchAuthVars ==
    /\ tokenStore \in {None} \cup { Some(t) : t \in DispatchTokens }
    /\ credentials = None
    /\ authRes = [op |-> "new", res |-> OkUnit, net |-> 0, out |-> NoOutcome, at |-> 0,
                  storeBefore |-> None, credsBefore |-> None]
    /\ scn = ScnIdle
    /\ client = NoClient
    /\ tsCalls = NoTsCalls

\* The limiter of a BaseEndpoint: a budget of 60, and for each path either no
\* admission yet or the 60 admissions of 60 calls made at time 0.
FullWindow == [i \in 1..DefaultRpm |-> 0]
InitDispatchRateVars ==
    /\ rpm = DefaultRpm
    /\ timestamps \in [Endpoints -> {<<>>, FullWindow}]
    /\ poisoned = FALSE
    /\ waiter = [p \in Callers |-> IdleWaiter]

\* ====================================================================
\* WebSocketClient, the streaming supervisor (streaming/client.rs)
\* ====================================================================

\* Bounds of the streaming model: connect() is called at most MaxConnects
\* times, and the server accepts at most MaxAccepts handshakes.
MaxConnects == 1
MaxAccepts == 1

\* max_reconnect_attempts: 5 in WebSocketClient::new
MaxReconnectAttempts == 5

\* The supervisors (and channels) a run may have: one per connect() call, and
\* one more for the run in which connect() is called once more than that.
SupIds == 1..(MaxConnects + 1)

\* line 94: the attempt ceiling
CeilingExceededEarly(n) == n >= MaxReconnectAttempts

CeilingExceeded(n) == n > MaxReconnectAttempts

NoSup == [pc |-> "none", read |-> 0, tried |-> 0, pure |-> TRUE, conn |-> 0]

\* observer: the supervisor's run is no longer one in which nothing but failed
\* handshakes happened, and its handshakes are not counted any more
Disturbed(s) == [s EXCEPT !.pure = FALSE, !.tried = 0]

\* observer: one more handshake of an undisturbed run
Counted(s) == IF s.pure THEN [s EXCEPT !.tried = @ + 1] ELSE s

\* observer of a channel: open is the connection_id of the last
\* Connection{Connected} event that its Connection{Disconnected} event has not
\* followed yet (0: none); ordered turns FALSE when a Connection{Connected},
\* {Reconnecting} or {Failed} event arrives while such a connection is open.
\* log is, with watch "all", the sequence of the events that arrived, and with
\* watch "last", the last of them.
Noted(c, kind, id, code) ==
    [c EXCEPT !.failed = IF kind = "Failed" THEN @ + 1 ELSE @,
              !.open = IF kind = "Connected" THEN id
                       ELSE IF kind = "Disconnected" /\ id = @ THEN 0
                       ELSE @,
              !.ordered = @ /\ (kind \in {"Connected", "Reconnecting", "Failed"}
                                  => c.open = 0),
              !.log = IF watch = "all"
                      THEN Append(@, [kind |-> kind, id |-> id, code |-> code])
                      ELSE IF watch = "last" THEN << [kind |-> kind, id |-> id, code |-> code] >>
                      ELSE @]

\* tx.send(event) on channel i: the event arrives unless the receiver is gone
DeliverEvent(i, kind, id, code) ==
    IF chan[i].rx THEN [chan EXCEPT ![i] = Noted(@, kind, id, code)] ELSE chan

\* tx.send(event) on channel i of an event that carries connection_id id (0: None)
DeliverConnection(i, kind, id) == DeliverEvent(i, kind, id, "")

\* tx.send(event) on channel i of an event without a connection_id
Deliver(i, kind) == DeliverConnection(i, kind, 0)

\* tx.send(event) on channel i of an Error event with the given code
DeliverError(i, code) == DeliverEvent(i, "Error", 0, code)

\* line 196: the Connection{Disconnected} event carries the connection_id of
\* the Connection{Connected} event
DisconnectedIdNone(id) == 0

DisconnectedId(id) == id

\* mpsc::channel(100), line 71, with its observer
NewChannel == [rx |-> TRUE, failed |-> 0, open |-> 0, ordered |-> TRUE, log |-> <<>>]

\* observer: the Disconnected event that follows a disconnect() on a Connected client
NoteEvent(kind) ==
    IF afterDisc.on /\ kind = "Disconnected"
    THEN [afterDisc EXCEPT !.discEv = TRUE] ELSE afterDisc

\* connect(), lines 69-90 and 240: a new channel, state Reconnecting, the counter
\* reset, and a supervisor task spawned with the channel's Sender
Connect ==
    /\ \E i \in SupIds :
          /\ sup[i].pc = "none"
          /\ \A j \in SupIds : j < i => sup[j].pc # "none"
          /\ sup' = [j \in SupIds |->
                       IF j = i
                       THEN [pc |-> "check", read |-> 0, tried |-> 0,
                             pure |-> \A k \in SupIds : sup[k].pc \in {"none", "done"},
                             conn |-> 0]
                       ELSE Disturbed(sup[j])]
          /\ eventSender' = i
    /\ connState' = "Reconnecting"
    /\ attempts' = 0
    /\ afterDisc' = [on |-> FALSE, discEv |-> FALSE]
    /\ UNCHANGED <<disc, hb, chan, accepts, lastHeartbeat, wire, watch>>

\* disconnect(), line 246
DisconnectSetState ==
    /\ disc = "idle"
    /\ disc' = IF connState = "Connected" THEN "state_set_connected" ELSE "state_set"
    /\ connState' = "Disconnected"
    /\ sup' = [j \in SupIds |-> Disturbed(sup[j])]
    /\ UNCHANGED <<attempts, eventSender, lastHeartbeat, wire, watch,
                   hb, chan, accepts, afterDisc>>

\* disconnect(), lines 249-251; the observer notes a disconnect() that found the
\* client Connected and has returned
DisconnectSetAttempts ==
    /\ disc # "idle"
    /\ disc' = "idle"
    /\ attempts' = MaxReconnectAttempts + 1
    /\ sup' = [j \in SupIds |-> Disturbed(sup[j])]
    /\ afterDisc' = IF disc = "state_set_connected"
                    THEN [on |-> TRUE, discEv |-> FALSE] ELSE afterDisc
    /\ UNCHANGED <<connState, eventSender, lastHeartbeat, wire, watch, hb, chan, accepts>>

\* supervisor, lines 93-94 and 111: read the counter and compare with the ceiling
SupCheck(i) ==
    /\ sup[i].pc = "check"
    /\ sup' = [sup EXCEPT ![i].read = attempts,
                          ![i].pc = IF CeilingExceeded(attempts) THEN "emit_failed"
                                    ELSE "incr"]
    /\ UNCHANGED <<connState, attempts, eventSender, lastHeartbeat, wire, watch,
                   disc, hb, chan, accepts, afterDisc>>

\* supervisor, lines 96-106: send Connection{Failed}
SupEmitFailed(i) ==
    /\ sup[i].pc = "emit_failed"
    /\ chan' = Deliver(i, "Failed")
    /\ sup' = [sup EXCEPT ![i].pc = "set_failed"]
    /\ UNCHANGED <<connState, attempts, eventSender, lastHeartbeat, wire, watch,
                   disc, hb, accepts, afterDisc>>

\* supervisor, lines 109-111: state Failed, and the task ends
SupSetFailed(i) ==
    /\ sup[i].pc = "set_failed"
    /\ connState' = "Failed"
    /\ sup' = [sup EXCEPT ![i].pc = "done"]
    /\ UNCHANGED <<attempts, eventSender, lastHeartbeat, wire, watch,
                   disc, hb, chan, accepts, afterDisc>>

\* line 115: attempts + 1
NotIncremented(n) == n

Incremented(n) == n + 1

\* supervisor, line 115: store the value read plus one
SupIncrement(i) ==
    /\ sup[i].pc = "incr"
    /\ attempts' = Incremented(sup[i].read)
    /\ sup' = [sup EXCEPT ![i].pc = "token", ![i].read = 0]
    /\ UNCHANGED <<connState, eventSender, lastHeartbeat, wire, watch,
                   disc, hb, chan, accepts, afterDisc>>

\* supervisor, lines 118-137: get_token; on failure send an Error event, sleep
\* the reconnect delay and go back to the top of the loop
\* stores is what the token store may hold at the time of the call.
SupTokenFrom(i, stores) ==
    /\ sup[i].pc = "token"
    /\ \E res \in {GetTokenResult(st, now) : st \in stores} :
          IF res.kind = "Ok"
          THEN /\ sup' = [sup EXCEPT ![i].pc = "handshake"]
               /\ UNCHANGED chan
          ELSE /\ sup' = [sup EXCEPT ![i] = [Disturbed(@) EXCEPT !.pc = "check"]]
               /\ chan' = DeliverError(i, "AUTH_ERROR")
    /\ UNCHANGED <<connState, attempts, eventSender, lastHeartbeat, wire, watch,
                   disc, hb, accepts, afterDisc>>

\* the token store holds anything
AnyStore == {None} \cup {Some(t) : t \in StorableTokens}

\* the token store holds nothing that get_token at time t would return
UnusableStores(t) == {st \in AnyStore : GetTokenResult(st, t).kind # "Ok"}

SupToken(i) == SupTokenFrom(i, AnyStore)

\* supervisor, lines 140-143 and 204-216: connect_websocket; on success the
\* state becomes Connected, on failure an Error event is sent
SupHandshake(i) ==
    /\ sup[i].pc = "handshake"
    /\ \E accepted \in {b \in BOOLEAN : b => accepts < MaxAccepts} :
          IF accepted
          THEN /\ connState' = "Connected"
               /\ accepts' = accepts + 1
               /\ sup' = [sup EXCEPT ![i] = [Disturbed(@) EXCEPT !.pc = "reset"]]
               /\ UNCHANGED chan
          ELSE /\ chan' = DeliverError(i, "WS_CONNECT_ERROR")
               /\ sup' = [sup EXCEPT ![i] = [Counted(@) EXCEPT !.pc = "sleep"]]
               /\ UNCHANGED <<connState, accepts>>
    /\ UNCHANGED <<attempts, eventSender, lastHeartbeat, wire, watch, disc, hb, afterDisc>>

\* supervisor, line 146: the counter back to zero
SupReset(i) ==
    /\ sup[i].pc = "reset"
    /\ attempts' = 0
    /\ sup' = [sup EXCEPT ![i].pc = "emit_connected"]
    /\ UNCHANGED <<connState, eventSender, lastHeartbeat, wire, watch,
                   disc, hb, chan, accepts, afterDisc>>

\* supervisor, lines 149-171 and 358-400: send Connection{Connected} with a new
\* connection_id (Uuid::new_v4: the number of the accepted handshake), enter
\* handle_websocket, which spawns the heartbeat task with a Sender clone
SupEmitConnected(i) ==
    /\ sup[i].pc = "emit_connected"
    /\ chan' = DeliverConnection(i, "Connected", accepts)
    /\ hb' = [hb EXCEPT ![i] = @ + 1]
    /\ sup' = [sup EXCEPT ![i].pc = "reading", ![i].conn = accepts]
    /\ wire' = [wire EXCEPT ![i] = <<>>]
    /\ UNCHANGED <<connState, attempts, eventSender, lastHeartbeat, watch, disc, accepts,
                   afterDisc>>

\* What ws_stream.next() may yield, line 403: a text message that decodes as an
\* Event ("text") or does not ("garbage"), the other messages, a read error
\* ("error"), and the end of the stream ("end").
Frames == {"text", "garbage", "binary", "ping", "pong", "frame", "close", "error", "end"}

\* lines 403, 462-465 and 469-487: what ends the loop by itself
EndsLoopOnGarbage(f) == f \in {"close", "error", "end", "garbage"}

EndsLoop(f) == f \in {"close", "error", "end"}

\* lines 415-424, 438-447 and 469-478: the code of the Error event that
\* handling the frame sends ("": none); pongOk is whether ws_stream.send(Pong)
\* succeeded
FrameError(f, pongOk) ==
    IF f = "garbage" THEN "PARSE_ERROR"
    ELSE IF f = "ping" /\ ~pongOk THEN "PONG_ERROR"
    ELSE IF f = "error" THEN "WS_ERROR"
    ELSE ""

\* lines 456 and 460: the frames that update last_heartbeat
TouchesHeartbeat(f) == f \in {"ping", "pong"}

\* observer of the socket: the frame read in the latest turn of the loop, and
\* the Pong written in reply
Traffic(w, f, pongOk) ==
    IF watch = "none" THEN w
    ELSE << [dir |-> "in", frame |-> f] >>
           \o (IF f = "ping" /\ pongOk THEN << [dir |-> "out", frame |-> "pong"] >>
               ELSE <<>>)

\* handle_websocket, lines 403-489: one turn of the read loop. A send on the
\* event channel that fails (the receiver is gone) ends the loop at once.
HandleFrame(i, f, pongOk) ==
    LET code == FrameError(f, pongOk)
        gone == (f = "text" \/ code # "") /\ ~chan[i].rx
    IN  /\ chan' = IF f = "text" THEN Deliver(i, "Data")
                   ELSE IF code # "" THEN DeliverError(i, code)
                   ELSE chan
        /\ lastHeartbeat' = IF TouchesHeartbeat(f) /\ ~gone THEN now ELSE lastHeartbeat
        /\ wire' = [wire EXCEPT ![i] = Traffic(@, f, pongOk)]
        /\ sup' = [sup EXCEPT ![i].pc = IF EndsLoop(f) \/ gone THEN "set_disc"
                                        ELSE "reading"]
        /\ UNCHANGED <<connState, attempts, eventSender, watch, disc, hb, accepts, afterDisc>>

\* handle_websocket, lines 403-468: a frame that does not end the loop by itself
ReadFrame(i) ==
    /\ sup[i].pc = "reading"
    /\ \E f \in {g \in Frames : ~EndsLoop(g)}, pongOk \in BOOLEAN : HandleFrame(i, f, pongOk)

\* handle_websocket, lines 462-491: a close frame, the end of the stream, or a
\* read error (which sends an Error event) ends the loop
ReadEnd(i) ==
    /\ sup[i].pc = "reading"
    /\ \E f \in {g \in Frames : EndsLoop(g)} : HandleFrame(i, f, TRUE)

\* supervisor, line 187: state Disconnected
SupSetDisconnected(i) ==
    /\ sup[i].pc = "set_disc"
    /\ connState' = "Disconnected"
    /\ sup' = [sup EXCEPT ![i].pc = "emit_disc"]
    /\ UNCHANGED <<attempts, eventSender, lastHeartbeat, wire, watch,
                   disc, hb, chan, accepts, afterDisc>>

\* supervisor, lines 190-202: send Connection{Disconnected}
SupEmitDisconnected(i) ==
    /\ sup[i].pc = "emit_disc"
    /\ chan' = DeliverConnection(i, "Disconnected", DisconnectedId(sup[i].conn))
    /\ afterDisc' = IF chan[i].rx THEN NoteEvent("Disconnected") ELSE afterDisc
    /\ sup' = [sup EXCEPT ![i].pc = "sleep", ![i].conn = 0]
    /\ UNCHANGED <<connState, attempts, eventSender, lastHeartbeat, wire, watch,
                   disc, hb, accepts>>

\* supervisor, lines 220-223: the reconnect delay is over; state Reconnecting
SupSetReconnecting(i) ==
    /\ sup[i].pc = "sleep"
    /\ connState' = "Reconnecting"
    /\ sup' = [sup EXCEPT ![i].pc = "emit_reconn"]
    /\ UNCHANGED <<attempts, eventSender, lastHeartbeat, wire, watch,
                   disc, hb, chan, accepts, afterDisc>>

\* supervisor, lines 226-236: send Connection{Reconnecting}, and loop
SupEmitReconnecting(i) ==
    /\ sup[i].pc = "emit_reconn"
    /\ chan' = Deliver(i, "Reconnecting")
    /\ sup' = [sup EXCEPT ![i].pc = "check"]
    /\ UNCHANGED <<connState, attempts, eventSender, lastHeartbeat, wire, watch,
                   disc, hb, accepts, afterDisc>>

\* heartbeat_interval: 30 in WebSocketClient::new
HeartbeatInterval == 30

\* line 371: no activity for the length of the interval
HeartbeatDue(last, t) == t - last >= HeartbeatInterval

\* heartbeat task, lines 363-399: the interval is over and no activity was seen;
\* send a Heartbeat event and note the time, or end the task when the receiver
\* is gone
HeartbeatTick(i) ==
    /\ hb[i] > 0
    /\ chan' = Deliver(i, "Heartbeat")
    /\ hb' = [hb EXCEPT ![i] = IF chan[i].rx THEN @ ELSE @ - 1]
    /\ lastHeartbeat' = IF chan[i].rx THEN now ELSE lastHeartbeat
    /\ UNCHANGED <<connState, attempts, eventSender, wire, watch, disc, sup, accepts,
                   afterDisc>>

\* the consumer drops the Receiver that connect() returned; nothing arrives
\* any more, and the observer of the channel's events ends
DropReceiver(i) ==
    /\ sup[i].pc # "none"
    /\ chan[i].rx
    /\ chan' = [chan EXCEPT ![i].rx = FALSE, ![i].open = 0]
    /\ sup' = [sup EXCEPT ![i] = Disturbed(@)]
    /\ UNCHANGED <<connState, attempts, eventSender, lastHeartbeat, wire, watch,
                   disc, hb, accepts, afterDisc>>

\* subscribe / unsubscribe, lines 257 and 293: the state check
SubscribeAllowedLax(state) == state # "Failed"

SubscribeAllowed(state) == state = "Connected"

\* The two errors of subscribe / unsubscribe, lines 258-260 and 282-284
NotConnected == [kind |-> "InvalidRequest", code |-> "",
                 message |-> "Not connected to WebSocket server", value |-> None]
SendFailed == [kind |-> "InvalidRequest", code |-> "",
               message |-> "Failed to send message", value |-> None]

\* The record of one subscribe / unsubscribe call: its result, the events it
\* put on the event channel and the messages it wrote to the socket.
SubCall(res, sent, wrote) ==
    [called |-> TRUE, res |-> res, sent |-> sent, wrote |-> wrote]

\* No subscribe / unsubscribe call has just returned.
NoSubCall == [called |-> FALSE, res |-> OkUnit, sent |-> 0, wrote |-> 0]

\* The body shared by subscribe and unsubscribe, which differ only in the
\* action name of the control message: the message is built and serialized,
\* and then dropped; what is sent is a Heartbeat event on the client's own
\* event_sender.  The socket belongs to the supervisor task; the call has no
\* handle on it.
SubscriptionCall ==
    /\ subRes' = IF ~SubscribeAllowed(connState) THEN SubCall(NotConnected, 0, 0)
                 ELSE IF eventSender = 0 THEN SubCall(OkUnit, 0, 0)
                 ELSE IF chan[eventSender].rx THEN SubCall(OkUnit, 1, 0)
                 ELSE SubCall(SendFailed, 0, 0)
    /\ UNCHANGED <<connState, attempts, eventSender, lastHeartbeat, wire, watch,
                   disc, sup, hb, chan, accepts,
                   afterDisc>>

\* subscribe(request), lines 255-288
Subscribe == SubscriptionCall

\* unsubscribe(request), lines 291-324
Unsubscribe == SubscriptionCall

\* The Senders of channel i alive: the client's event_sender, the supervisor's
\* tx, and one clone in each heartbeat task.
Senders(i) ==
    (IF eventSender = i THEN 1 ELSE 0)
    + (IF sup[i].pc \in {"none", "done"} THEN 0 ELSE 1)
    + hb[i]

\* Channel i is closed: every Sender is gone, so the consumer's recv() reports
\* the end of the stream once the buffer is drained.
ChannelClosed(i) == sup[i].pc # "none" /\ Senders(i) = 0

streamVars == <<connState, attempts, eventSender, disc, sup, hb, chan, accepts, afterDisc,
                lastHeartbeat, wire, watch, subRes>>

\* WebSocketClient::new; w is what the observers keep: "none", "all" or "last"
InitStreamVarsWith(w) ==
    /\ connState = "Disconnected"
    /\ attempts = 0
    /\ eventSender = 0
    /\ disc = "idle"
    /\ sup = [i \in SupIds |-> NoSup]
    /\ hb = [i \in SupIds |-> 0]
    /\ chan = [i \in SupIds |-> NewChannel]
    /\ accepts = 0
    /\ afterDisc = [on |-> FALSE, discEv |-> FALSE]
    /\ lastHeartbeat = 0
    /\ wire = [i \in SupIds |-> <<>>]
    /\ watch = w
    /\ subRes = NoSubCall

InitStreamVars == InitStreamVarsWith("none")

\* ====================================================================
\* The specifications
\* ====================================================================

vars == <<now, authVars, cacheVars, rateVars, dspVars, streamVars>>

\* Time passes.
Tick ==
    /\ \E d \in TickSteps : now + d <= MaxTime /\ now' = now + d
    /\ UNCHANGED <<authVars, cacheVars, rateVars, dspVars, streamVars>>

InitAuth ==
    /\ now = 0
    /\ InitAuthVars
    /\ IdleCacheVars
    /\ IdleRateVars
    /\ InitDispatchVars
    /\ InitStreamVars

NextAuth ==
    \/ Tick
    \/ Authenticate /\ UNCHANGED <<client, tsCalls, cacheVars, rateVars, dspVars, streamVars>>
    \/ MultiFactorAuth /\ UNCHANGED <<client, tsCalls, cacheVars, rateVars, dspVars, streamVars>>
    \/ RefreshToken /\ UNCHANGED <<client, tsCalls, cacheVars, rateVars, dspVars, streamVars>>
    \/ GetToken /\ UNCHANGED <<client, tsCalls, cacheVars, rateVars, dspVars, streamVars>>
    \/ RevokeToken /\ UNCHANGED <<client, tsCalls, cacheVars, rateVars, dspVars, streamVars>>
    \/ StoreToken /\ UNCHANGED <<client, tsCalls, cacheVars, rateVars, dspVars, streamVars>>
    \/ ClearToken /\ UNCHANGED <<client, tsCalls, cacheVars, rateVars, dspVars, streamVars>>

SpecAuth == InitAuth /\ [][NextAuth]_vars

IdleAuthVars == InitAuthVars

\* what a call on the AuthManager, the client or the token store leaves alone
authFrame == <<cacheVars, rateVars, dspVars, streamVars>>

\* An AuthManager used on its own, or a WebullClient built with the stores
\* handed to its builder.
ClientTokens == { AccessToken("t1", 90, rt) : rt \in {None, Some("r1")} }
InitClient ==
    /\ now = 0
    /\ tokenStore \in {None} \cup { Some(t) : t \in ClientTokens }
    /\ credentials = None
    /\ authRes = [op |-> "new", res |-> OkUnit, net |-> 0, out |-> NoOutcome, at |-> 0,
                  storeBefore |-> None, credsBefore |-> None]
    /\ scn = ScnIdle
    /\ client \in {NoClient, Client(None), Client(Some(TheCredentials))}
    /\ tsCalls = NoTsCalls
    /\ IdleCacheVars
    /\ IdleRateVars
    /\ InitDispatchVars
    /\ InitStreamVars

NextClient ==
    \/ Tick
    \/ ~client.present /\ Authenticate /\ UNCHANGED <<client, tsCalls, authFrame>>
    \/ ~client.present /\ RefreshToken /\ UNCHANGED <<client, tsCalls, authFrame>>
    \/ Login /\ UNCHANGED authFrame
    \/ Logout /\ UNCHANGED authFrame
    \/ ClientRefreshToken /\ UNCHANGED authFrame
    \/ StoreCredentials /\ UNCHANGED authFrame

SpecClient == InitClient /\ [][NextClient]_vars

\* A MemoryTokenStore called by NumThreads threads.
InitTokenStore ==
    /\ now = 0
    /\ tokenStore \in {None} \cup { Some(t) : t \in TsTokens }
    /\ credentials = None
    /\ authRes = [op |-> "new", res |-> OkUnit, net |-> 0, out |-> NoOutcome, at |-> 0,
                  storeBefore |-> None, credsBefore |-> None]
    /\ scn = ScnIdle
    /\ client = NoClient
    /\ tsCalls = [NoTsCalls EXCEPT !.last = tokenStore]
    /\ IdleCacheVars
    /\ IdleRateVars
    /\ InitDispatchVars
    /\ InitStreamVars

NextTokenStore ==
    \/ \E p \in TsThreads : TsInvoke(p) /\ UNCHANGED authFrame
    \/ \E p \in TsThreads : TsLocked(p) /\ UNCHANGED authFrame
    \/ \E p \in TsThreads : TsReturn(p) /\ UNCHANGED authFrame

SpecTokenStore == InitTokenStore /\ [][NextTokenStore]_vars

InitCache ==
    /\ now = 0
    /\ IdleAuthVars
    /\ InitCacheVars
    /\ IdleRateVars
    /\ InitDispatchVars
    /\ InitStreamVars

NextCache ==
    \/ Tick
    \/ Get /\ UNCHANGED <<now, authVars, rateVars, dspVars, streamVars>>
    \/ Set /\ UNCHANGED <<now, authVars, rateVars, dspVars, streamVars>>
    \/ Clear /\ UNCHANGED <<now, authVars, rateVars, dspVars, streamVars>>
    \/ Cleanup /\ UNCHANGED <<now, authVars, rateVars, dspVars, streamVars>>

SpecCache == InitCache /\ [][NextCache]_vars

InitRate ==
    /\ now = 0
    /\ IdleAuthVars
    /\ IdleCacheVars
    /\ InitRateVars
    /\ InitDispatchVars
    /\ InitStreamVars

NextRate ==
    \/ Tick
    \/ \E p \in Callers : WaitStart(p) /\ UNCHANGED <<now, authVars, cacheVars, dspVars, streamVars>>
    \/ \E p \in Callers : WaitLocked(p) /\ UNCHANGED <<now, authVars, cacheVars, dspVars, streamVars>>
    \/ \E p \in Callers : WaitWake(p) /\ UNCHANGED <<now, authVars, cacheVars, dspVars, streamVars>>
    \/ \E p \in Callers : WaitAfterPanic(p) /\ UNCHANGED <<now, authVars, cacheVars, dspVars, streamVars>>

SpecRate == InitRate /\ [][NextRate]_vars

InitDispatch ==
    /\ now = 0
    /\ InitDispatchAuthVars
    /\ InitDispatchCacheVars
    /\ InitDispatchRateVars
    /\ InitDispatchVars
    /\ InitStreamVars

NextDispatch ==
    \/ Tick
    \/ CallStart /\ UNCHANGED <<now, authVars, streamVars>>
    \/ SendRequestStart /\ UNCHANGED <<now, authVars, streamVars>>
    \/ ObtainHandle /\ UNCHANGED <<now, authVars, streamVars>>
    \/ WaitLocked(Dispatcher) /\ UNCHANGED <<now, authVars, cacheVars, dspVars, streamVars>>
    \/ WaitWake(Dispatcher) /\ UNCHANGED <<now, authVars, cacheVars, dspVars, streamVars>>
    \/ SendRequestSend /\ UNCHANGED <<now, authVars, streamVars>>
    \/ SendRequestAfter429 /\ UNCHANGED <<now, authVars, streamVars>>

SpecDispatch == InitDispatch /\ [][NextDispatch]_vars

\* what a streaming step leaves alone
streamFrame == <<now, authVars, cacheVars, rateVars, dspVars>>

InitStream ==
    /\ now = 0
    /\ IdleAuthVars
    /\ IdleCacheVars
    /\ IdleRateVars
    /\ InitDispatchVars
    /\ InitStreamVars

\* connect() has been called fewer than MaxConnects times
ConnectsLeft == eventSender < MaxConnects

NextStream ==
    \/ ConnectsLeft /\ Connect /\ subRes' = NoSubCall /\ UNCHANGED streamFrame
    \/ DisconnectSetState /\ subRes' = NoSubCall /\ UNCHANGED streamFrame
    \/ DisconnectSetAttempts /\ subRes' = NoSubCall /\ UNCHANGED streamFrame
    \/ \E i \in SupIds : SupCheck(i) /\ subRes' = NoSubCall /\ UNCHANGED streamFrame
    \/ \E i \in SupIds : SupEmitFailed(i) /\ subRes' = NoSubCall /\ UNCHANGED streamFrame
    \/ \E i \in SupIds : SupSetFailed(i) /\ subRes' = NoSubCall /\ UNCHANGED streamFrame
    \/ \E i \in SupIds : SupIncrement(i) /\ subRes' = NoSubCall /\ UNCHANGED streamFrame
    \/ \E i \in SupIds : SupToken(i) /\ subRes' = NoSubCall /\ UNCHANGED streamFrame
    \/ \E i \in SupIds : SupHandshake(i) /\ subRes' = NoSubCall /\ UNCHANGED streamFrame
    \/ \E i \in SupIds : SupReset(i) /\ subRes' = NoSubCall /\ UNCHANGED streamFrame
    \/ \E i \in SupIds : SupEmitConnected(i) /\ subRes' = NoSubCall /\ UNCHANGED streamFrame
    \/ \E i \in SupIds : ReadFrame(i) /\ subRes' = NoSubCall /\ UNCHANGED streamFrame
    \/ \E i \in SupIds : ReadEnd(i) /\ subRes' = NoSubCall /\ UNCHANGED streamFrame
    \/ \E i \in SupIds : SupSetDisconnected(i) /\ subRes' = NoSubCall /\ UNCHANGED streamFrame
    \/ \E i \in SupIds : SupEmitDisconnected(i) /\ subRes' = NoSubCall /\ UNCHANGED streamFrame
    \/ \E i \in SupIds : SupSetReconnecting(i) /\ subRes' = NoSubCall /\ UNCHANGED streamFrame
    \/ \E i \in SupIds : SupEmitReconnecting(i) /\ subRes' = NoSubCall /\ UNCHANGED streamFrame
    \/ \E i \in SupIds : HeartbeatTick(i) /\ subRes' = NoSubCall /\ UNCHANGED streamFrame
    \/ \E i \in SupIds : DropReceiver(i) /\ subRes' = NoSubCall /\ UNCHANGED streamFrame
    \/ Subscribe /\ UNCHANGED streamFrame
    \/ Unsubscribe /\ UNCHANGED streamFrame

SpecStream == InitStream /\ [][NextStream]_vars

\* The supervisor is a spawned task and disconnect() an async call: the runtime
\* runs each of them to its next suspension point. The server is taken to end
\* every connection it accepted.
SupervisorRuns(i) ==
    \/ SupCheck(i) \/ SupEmitFailed(i) \/ SupSetFailed(i) \/ SupIncrement(i)
    \/ SupToken(i) \/ SupHandshake(i) \/ SupReset(i) \/ SupEmitConnected(i)
    \/ ReadEnd(i) \/ SupSetDisconnected(i) \/ SupEmitDisconnected(i)
    \/ SupSetReconnecting(i) \/ SupEmitReconnecting(i)

FairStream ==
    /\ \A i \in SupIds : WF_vars(SupervisorRuns(i) /\ subRes' = NoSubCall /\ UNCHANGED streamFrame)
    /\ WF_vars(DisconnectSetAttempts /\ subRes' = NoSubCall /\ UNCHANGED streamFrame)

SpecStreamFair == InitStream /\ [][NextStream]_vars /\ FairStream


\* ------------------------------------------------ properties of the AuthManager

\* C1: get_token returns the stored token if and only if a token is stored and
\* its expires_at is strictly later than the time of the call; otherwise it
\* fails with Unauthorized; it sends no request and leaves the store as it was.
C1_GetTokenGate ==
    authRes.op = "get_token" =>
        LET before == authRes.storeBefore
            usable == before # None /\ Unwrap(before).expires_at > authRes.at
        IN  /\ (authRes.res.kind = "Ok") <=> usable
            /\ usable => authRes.res.value = before
            /\ ~usable => authRes.res = Err("Unauthorized")
            /\ authRes.net = 0
            /\ tokenStore = before
            /\ credentials = authRes.credsBefore

\* C1 witness: get_token was called at the very second the stored token expires.
C1_Witness ==
    /\ authRes.op = "get_token"
    /\ authRes.storeBefore # None
    /\ Unwrap(authRes.storeBefore).expires_at = authRes.at
    /\ authRes.res.kind = "Unauthorized"

\* C7: refresh_token with no stored token, or with a stored token that has no
\* refresh token, fails with InvalidRequest, sends no request and leaves the
\* token store unchanged.
C7_RefreshPrecondition ==
    (/\ authRes.op = "refresh_token"
     /\ \/ authRes.storeBefore = None
        \/ Unwrap(authRes.storeBefore).refresh_token = None)
    => /\ authRes.res.kind = "InvalidRequest"
       /\ authRes.net = 0
       /\ tokenStore = authRes.storeBefore

\* C7 witness: refresh_token was called on a stored token without refresh token.
C7_Witness ==
    /\ authRes.op = "refresh_token"
    /\ authRes.storeBefore # None
    /\ Unwrap(authRes.storeBefore).refresh_token = None
    /\ authRes.res.kind = "InvalidRequest"

\* C9: in the lifecycle authenticate, get_token, clock passes expires_at,
\* get_token, refresh_token, get_token, every call does what the scenario says:
\* the same token, then Unauthorized, then a new token stored in place of the
\* old one although the old one had expired, then the new token.
C9_TokenLifecycle == scn.ok

\* C9 witness: the whole scenario has run, ending with get_token returning the
\* refreshed token.
C9_Witness ==
    /\ scn.stage = 5
    /\ scn.ok
    /\ authRes.op = "get_token"
    /\ authRes.res.value = scn.tok
    /\ tokenStore = scn.tok
    /\ Unwrap(scn.old).expires_at <= authRes.at

\* C10: revoke_token with no stored token succeeds without a request; with a
\* stored token it sends the logout request and clears the store and the
\* credentials exactly when the answer is 2xx or 401; on 429, any other status
\* or a transport failure it fails and changes neither.
C10_RevokeToken ==
    authRes.op = "revoke_token" =>
        IF authRes.storeBefore = None
        THEN authRes.res = OkUnit /\ authRes.net = 0 /\ tokenStore = None
        ELSE /\ authRes.net = 1
             /\ IF authRes.out.transport
                   /\ (IsSuccess(authRes.out.status) \/ authRes.out.status = 401)
                THEN authRes.res = OkUnit /\ tokenStore = None /\ credentials = None
                ELSE /\ authRes.res.kind \in {"RateLimitExceeded", "ApiError", "NetworkError"}
                     /\ tokenStore = authRes.storeBefore
                     /\ credentials = authRes.credsBefore

\* C10 witness: a logout answered 401 cleared a stored token and stored credentials.
C10_Witness ==
    /\ authRes.op = "revoke_token"
    /\ authRes.storeBefore # None
    /\ authRes.credsBefore # None
    /\ authRes.out.status = 401
    /\ tokenStore = None
    /\ credentials = None


\* ------------------------------------------------ properties of the ResponseCache

\* C3: whatever the configured max_entries and whatever calls were made, the
\* cache never holds more than max_entries entries.
C3_CapacityBound == Cardinality(DOMAIN cache) <= maxEntries

\* C4: (a) a get that directly follows the set of the same key, at most ttl
\* seconds later, returns the value that was set and leaves the cache alone;
\* (b) a get of an entry older than its ttl returns none and removes the entry;
\* (c) a get of an absent key returns none, and an absent key becomes present
\* only by a set of that key.
C4_GetStep == cacheRes'.op = "get" /\ cacheRes' # cacheRes
C2_WindowBound == \A e \in Endpoints : InWindow(e, now) <= rpm


\* ------------------------------------------------ properties of the dispatcher

\* The seconds a retry-after header asks for, read off the header values of
\* the model: 1 when the header is absent or is no decimal number.
C8_HeaderSeconds(header) ==
    CASE header = Some(HeaderValue(TRUE, <<"3">>)) -> 3
      [] header = Some(HeaderValue(TRUE, <<"3", "0">>)) -> 30
      [] header = Some(HeaderValue(TRUE, <<"0">>)) -> 0
      [] OTHER -> 1

\* C8: a response with status 429 makes the dispatcher sleep for the
\* retry-after header's seconds (1 second when the header is absent or
\* unparsable) and then fail with RateLimitExceeded; 401 fails with
\* Unauthorized; any other non-2xx status fails with ApiError whose code is the
\* status number and whose message is the response body.
C8_StatusClassification ==
    (dspRes.op = "send_request" /\ dspRes.out.transport) =>
        LET out == dspRes.out
        IN  /\ out.status = 429 =>
                 /\ dspRes.res = Err("RateLimitExceeded")
                 /\ dspRes.sleep = C8_HeaderSeconds(out.retryAfter)
                 /\ dspRes.at >= dspRes.sentAt + dspRes.sleep
            /\ out.status = 401 =>
                 /\ dspRes.res = Err("Unauthorized")
                 /\ dspRes.at = dspRes.sentAt
            /\ (out.status \notin {401, 429} /\ ~(out.status \in 200..299)
                  /\ out.bodyReadable) =>
                 /\ dspRes.res = [kind |-> "ApiError", code |-> ToString(out.status),
                                  message |-> out.text, value |-> None]
                 /\ dspRes.at = dspRes.sentAt

\* C8 witness: a 429 with retry-after: 30 was answered by a sleep of 30 seconds
\* and then RateLimitExceeded.
C8_Witness ==
    /\ dspRes.op = "send_request"
    /\ dspRes.out.status = 429
    /\ dspRes.out.retryAfter = Some(HeaderValue(TRUE, <<"3", "0">>))
    /\ dspRes.sleep = 30
    /\ dspRes.at = dspRes.sentAt + 30
    /\ dspRes.res.kind = "RateLimitExceeded"

\* ------------------------------------------- properties of the WebSocketClient

\* A handshake (connect_websocket) of supervisor i completes in this step.
HandshakeStep(i) == sup[i].pc = "handshake" /\ sup'[i].pc # "handshake"

\* C5 (as stated): with every connection attempt failing (the token is valid,
\* no handshake is accepted, no earlier supervisor is still running, nobody
\* calls connect() or disconnect() again and the consumer keeps the receiver),
\* the supervisor that has stopped has made
\* exactly max_reconnect_attempts connection attempts, has emitted one
\* Connection{Failed} event and has left the state Failed.
C5_ExactlyMAttempts ==
    \A i \in SupIds :
        (sup[i].pure /\ sup[i].pc = "done")
            => /\ sup[i].tried = MaxReconnectAttempts
               /\ chan[i].failed = 1
               /\ connState = "Failed"

\* C5 (amended): in such a run the supervisor never makes more than
\* max_reconnect_attempts + 1 connection attempts (the first one and
\* max_reconnect_attempts reconnects); it gives up only after exactly that
\* many, and once it has stopped it has emitted one Connection{Failed} event,
\* the state is Failed and the number of attempts stays what it was.
C5_AttemptCeiling ==
    \A i \in SupIds :
        sup[i].pure
            => /\ sup[i].tried <= MaxReconnectAttempts + 1
               /\ sup[i].pc \in {"emit_failed", "set_failed", "done"}
                     => sup[i].tried = MaxReconnectAttempts + 1
               /\ sup[i].pc = "done" => chan[i].failed = 1 /\ connState = "Failed"
               /\ sup[i].pc \notin {"set_failed", "done"} => chan[i].failed = 0

C5_Witness ==
    \E i \in SupIds :
        /\ sup[i].pure
        /\ sup[i].pc = "done"
        /\ sup[i].tried > 0
        /\ chan[i].failed = 1

\* C6: after a disconnect() called on a Connected client has returned, the supervisor
\* completes no further handshake, a Connection{Disconnected} event is
\* eventually emitted, and the event channel eventually is closed.
C6_Disconnect ==
    /\ [][afterDisc.on => \A i \in SupIds : ~HandshakeStep(i)]_vars
    /\ afterDisc.on ~> afterDisc.discEv
    /\ afterDisc.on ~> (\E i \in SupIds : ChannelClosed(i))

\* ------------------------------------------- multi_factor_auth (C11)

\* C11: multi_factor_auth on a manager without recorded credentials fails with
\* InvalidRequest, sends nothing and leaves the store alone; with credentials it
\* sends one request.  A new manager has no credentials, a revoke_token that
\* succeeds clears them, every authenticate call leaves them recorded whatever
\* its result, and no other call changes them.
C11_MfaPrecondition ==
    /\ authRes.op = "multi_factor_auth" =>
          /\ credentials = authRes.credsBefore
          /\ IF authRes.credsBefore = None
             THEN /\ authRes.res = Err("InvalidRequest")
                  /\ authRes.net = 0
                  /\ tokenStore = authRes.storeBefore
             ELSE /\ authRes.net = 1
                  /\ authRes.res.kind # "InvalidRequest"
    /\ authRes.op = "new" => credentials = None
    /\ authRes.op = "authenticate" => credentials # None
    /\ (authRes.op = "revoke_token" /\ authRes.res.kind = "Ok") => credentials = None
    /\ authRes.op \in {"get_token", "refresh_token", "store_token", "clear_token"}
          => credentials = authRes.credsBefore

\* C11 witness: multi_factor_auth was refused on a manager that holds a token
\* but no credentials.
C11_Witness ==
    /\ authRes.op = "multi_factor_auth"
    /\ authRes.credsBefore = None
    /\ authRes.storeBefore # None
    /\ authRes.res = Err("InvalidRequest")

\* ------------------------------------------- subscribe / unsubscribe (C12, C13)

\* C12: a subscribe or unsubscribe call made while the state is Disconnected,
\* Reconnecting or Failed fails with InvalidRequest, writes nothing to the
\* socket and leaves the event channel as it was.
C12_NotConnected ==
    [][((Subscribe \/ Unsubscribe) /\ connState # "Connected")
          => /\ subRes'.res.kind = "InvalidRequest"
             /\ subRes'.wrote = 0
             /\ subRes'.sent = 0
             /\ chan' = chan]_vars

\* C12 witness: a call was refused while the client, once connected, was in the
\* state Failed.
C12_Witness ==
    /\ subRes.res = NotConnected
    /\ connState = "Failed"
    /\ accepts > 0

\* C13: a subscribe or unsubscribe call made while the state is Connected
\* writes its control message to the socket and puts no event on the event
\* channel.
C13_ControlMessage ==
    [][((Subscribe \/ Unsubscribe) /\ connState = "Connected")
          => /\ subRes'.wrote = 1
             /\ subRes'.sent = 0]_vars

\* ------------------------------------------- properties of the RateLimiter, continued

\* Caller p's admission is recorded in this step.
AdmissionRecorded(p) ==
    /\ waiter[p].pc \in {"entered", "sleeping"}
    /\ waiter'[p].pc = "idle"

\* C14: on one key admissions are recorded in arrival order: when a caller's
\* admission is recorded, no caller that reached the limiter on the same key
\* before it (and was suspended there) is still waiting for its own.
C14_Fifo ==
    [][\A p \in Callers :
          AdmissionRecorded(p) =>
              IF waiter[p].pc = "entered"
              THEN Suspended(p, waiter[p].endpoint) = {}
              ELSE waiter[p].ahead = {}]_vars

\* Caller p takes the limiter's lock in this step (lines 40-58).
LockStep(p) == waiter[p].pc = "entered" /\ waiter'[p].pc # "entered"

\* Caller p's sleep ends in this step (lines 61-69).
WakeStep(p) == waiter[p].pc = "sleeping" /\ waiter'[p].pc # "sleeping"

\* C15: a wait call on one key leaves the list of every other key as it was,
\* and whether it is suspended depends on the list of its own key alone: it is
\* suspended only if that list, as retained at the caller's clock value, has
\* requests_per_minute entries or more, and with fewer it is admitted at once.
C15_KeysIndependent ==
    [][\A p \in Callers :
          LET e == waiter[p].endpoint
              own == Len(Retain(timestamps[e], waiter[p].t0))
          IN  /\ (LockStep(p) \/ WakeStep(p))
                    => \A f \in Endpoints \ {e} : timestamps'[f] = timestamps[f]
              /\ (LockStep(p) /\ waiter'[p].pc = "sleeping") => own >= rpm
              /\ (LockStep(p) /\ ~poisoned /\ own < rpm)
                    => /\ waiter'[p].pc = "idle"
                       /\ Len(timestamps'[e]) = own + 1]_vars

\* C15 witness: a caller is suspended on /a while an admission on /b has just
\* been recorded at the current time.
C15_Witness ==
    \E p \in Callers :
        /\ waiter[p].pc = "sleeping"
        /\ waiter[p].endpoint = "/a"
        /\ now < waiter[p].wakeAt
        /\ timestamps["/b"] # <<>>
        /\ timestamps["/b"][Len(timestamps["/b"])] = now
        /\ now > 0

\* The earliest of the timestamps of a non-empty list.
Oldest(ts) == CHOOSE x \in {ts[i] : i \in 1..Len(ts)} :
                 \A j \in 1..Len(ts) : x <= ts[j]

DecodedCall ==
    /\ dspRes.op = "send_request"
    /\ dspRes.out.transport
    /\ dspRes.out.status \in 200..299
    /\ dspRes.out.bodyReadable

\* The body is an envelope for the type T of the call: a JSON object with the
\* field success whose data, when there is one, is of type T.
C17_ValidEnvelope(type, j) ==
    /\ j.valid
    /\ "success" \in j.fields
    /\ ("data" \in j.fields /\ j.data = "d1") => type = "Payload"
    /\ ("data" \in j.fields /\ j.data = "l1") => type = "List"

C17_HasData(j) == "data" \in j.fields /\ j.data # "null"

C18_BarePayload ==
    (DecodedCall /\ dspRes.req \in Requests) =>
        LET j == dspRes.out.json
        IN  /\ (dspRes.req.type = "Payload"
                  /\ dspRes.req.method \in {"GET", "POST", "PUT"}
                  /\ j.valid /\ j.fields = {"id"}) =>
                 /\ dspRes.res = [kind |-> "Ok", code |-> "", message |-> "",
                                  value |-> <<j.id>>]
                 /\ dspRes.sent = 1
            /\ (dspRes.req = [method |-> "DELETE", type |-> "Unit"]
                  /\ j.valid /\ j.fields = {}) =>
                 /\ dspRes.res.kind = "Ok"
                 /\ dspRes.sent = 1

\* C19: every dispatcher call sends at most one HTTP request, whatever the
\* outcome: none when it returns from the cache or for want of a token, one
\* when it returns from send_request; after a 429 it sleeps and fails with
\* RateLimitExceeded without sending again.
C19_AtMostOneRequest ==
    /\ dsp.sent <= 1
    /\ dspRes.sent <= 1
    /\ dspRes.op \in {"cache", "authenticate_request"} => dspRes.sent = 0
    /\ dspRes.op = "send_request" => dspRes.sent = 1
    /\ (dspRes.op = "send_request" /\ dspRes.out.status = 429) =>
         dspRes.res = [kind |-> "RateLimitExceeded", code |-> "", message |-> "",
                       value |-> None]

\* C19 witness: a get answered with 429 has slept, failed with
\* RateLimitExceeded and sent one request.
C19_Witness ==
    /\ dspRes.op = "send_request"
    /\ dspRes.req.method = "GET"
    /\ dspRes.out.status = 429
    /\ dspRes.sleep > 0
    /\ dspRes.at >= dspRes.sentAt + dspRes.sleep
    /\ dspRes.res.kind = "RateLimitExceeded"
    /\ dspRes.sent = 1

\* A call of get/post/put/delete returns in this step because get_token failed.
TokenFailureStep ==
    /\ dsp.pc = "idle"
    /\ dspRes'.n = dspRes.n + 1
    /\ dspRes'.op = "authenticate_request"

\* A call of get/post/put/delete enters rate_limiter.wait in this step.
EnterWaitStep == dsp.pc = "idle" /\ dsp'.pc = "wait" /\ dsp'.req # Direct

\* A call of get/post/put/delete sends its request in this step.
SendStep == dsp.pc = "wait" /\ dsp'.pc # "wait" /\ dsp.req # Direct

\* C20 (as stated): a call that fails with Unauthorized because no valid token
\* exists has been admitted by the rate limiter, which has recorded it for the
\* path.
C20_WaitBeforeToken ==
    [][TokenFailureStep =>
          /\ dspRes'.res.kind = "Unauthorized"
          /\ timestamps'[dspRes'.path] # timestamps[dspRes'.path]]_vars

\* C20 (amended): on a cache miss the dispatcher obtains the bearer token
\* first, then waits for the rate limiter's admission on the path, then sends:
\* a call that fails for want of a valid token fails with Unauthorized, has
\* sent nothing and has left the rate limiter as it was; a call enters the
\* wait only with the token in hand and before its admission is recorded; and
\* it sends only when the wait has returned.
C20_TokenBeforeWait ==
    [][/\ TokenFailureStep =>
             /\ dspRes'.res = [kind |-> "Unauthorized", code |-> "", message |-> "",
                               value |-> None]
             /\ dspRes'.sent = 0
             /\ UNCHANGED <<timestamps, waiter, dsp>>
       /\ EnterWaitStep =>
             /\ tokenStore # None
             /\ tokenStore[1].expires_at > now
             /\ dsp'.bearer = <<tokenStore[1].token>>
             /\ dsp'.sent = 0
             /\ waiter'[Dispatcher].pc = "entered"
             /\ UNCHANGED timestamps
       /\ SendStep =>
             /\ dsp.bearer # None
             /\ waiter[Dispatcher].pc = "idle"
             /\ timestamps[dsp.path] # <<>>
             /\ dsp.sent = 0]_vars

\* C20 witness: a get found the stored token expired and returned Unauthorized
\* while the rate limiter had recorded nothing for the path.
C20_Witness ==
    /\ dspRes.op = "authenticate_request"
    /\ dspRes.req.method = "GET"
    /\ dspRes.res.kind = "Unauthorized"
    /\ tokenStore # None
    /\ timestamps[dspRes.path] = <<>>
    /\ dspRes.sent = 0

\* A call of the dispatcher begins in this step; it either returns at once
\* (from the cache, or with the error of the token lookup) or enters the wait.
CallBegins == dsp.pc = "idle" /\ (dsp'.pc = "wait" \/ dspRes'.n = dspRes.n + 1)
BegunReq == IF dsp'.pc = "wait" THEN dsp'.req ELSE dspRes'.req
BegunPath == IF dsp'.pc = "wait" THEN dsp'.path ELSE dspRes'.path

\* A call of the dispatcher returns in this step.
CallReturns == dspRes'.n = dspRes.n + 1

\* C21: a GET or a POST whose exact key (method, path, serialized body) has an
\* unexpired cache entry returns the cached payload without rate-limiter
\* admission, token lookup or HTTP request; a cache entry is written only when
\* the call succeeded; and a call that fails leaves every cache as it was.
C21_CacheHitAndWrite ==
    [][/\ (CallBegins /\ Cached(BegunReq)) =>
             LET k == [method |-> BegunReq.method, url |-> BegunPath, query |-> <<>>,
                       body |-> IF BegunReq.method = "POST" THEN <<"x">> ELSE <<>>]
             IN  (k \in DOMAIN cache /\ now - cache[k].created_at <= cache[k].ttl) =>
                    /\ dspRes'.op = "cache"
                    /\ dspRes'.res = [kind |-> "Ok", code |-> "", message |-> "",
                                      value |-> <<cache[k].value>>]
                    /\ dspRes'.sent = 0
                    /\ UNCHANGED <<timestamps, waiter, dsp>>
       /\ \A k \in DOMAIN cache' :
             (k \notin DOMAIN cache \/ cache'[k] # cache[k]) =>
                /\ CallReturns
                /\ dspRes'.op = "send_request"
                /\ dspRes'.res.kind = "Ok"
       /\ (CallReturns /\ dspRes'.res.kind # "Ok") =>
             UNCHANGED cache]_vars

\* C22: a successful PUT or DELETE adds no cache entry, and when it has
\* returned no cached GET or POST response for its path is left to be
\* returned by a later get or post.
C22_Invalidation ==
    [][(/\ CallReturns
        /\ dspRes'.op = "send_request"
        /\ dspRes'.res.kind = "Ok"
        /\ dspRes'.req.method \in {"PUT", "DELETE"}) =>
          /\ DOMAIN cache' \subseteq DOMAIN cache
          /\ \A k \in DOMAIN cache' : k.url # dspRes'.path]_vars

\* C23: the limiter and the cache are those of the client, whatever handle a
\* call is made through: while the last call is one that sent a request, the
\* limiter holds an admission for its path; and a get identical to the last
\* call, a get that succeeded no more than 60 s ago, is served from the cache
\* with the same payload.
C23_SharedAccounting ==
    [][/\ (dsp.pc = "idle" /\ dspRes.op = "send_request") =>
             timestamps[dspRes.path] # <<>>
       /\ (/\ CallBegins
           /\ dspRes.op = "send_request"
           /\ dspRes.res.kind = "Ok"
           /\ dspRes.req.method = "GET"
           /\ now - dspRes.at <= 60
           /\ BegunReq = dspRes.req
           /\ BegunPath = dspRes.path) =>
             /\ dspRes'.op = "cache"
             /\ dspRes'.res = dspRes.res]_vars

\* ------------------------------------------------ further properties

\* disconnect() writes the state in this step.
DisconnectStep == disc = "idle" /\ disc' # "idle"

\* C24: every change of the shared ConnectionState is Disconnected or
\* Reconnecting to Connected, or Disconnected, Reconnecting or Connected to
\* Reconnecting, or Reconnecting to Failed, or any state to Disconnected by a
\* disconnect() call; no other change occurs.
C24_Transitions ==
    [][connState' # connState =>
          \/ connState \in {"Disconnected", "Reconnecting"} /\ connState' = "Connected"
          \/ connState \in {"Disconnected", "Reconnecting", "Connected"}
                /\ connState' = "Reconnecting"
          \/ connState = "Reconnecting" /\ connState' = "Failed"
          \/ connState' = "Disconnected" /\ DisconnectStep]_vars

\* C25: the token store is linearizable, the order of the calls being that in
\* which they hold the lock (a moment between the call and its return): a
\* get_token returns the token written by the latest store_token before it in
\* that order, or nothing when there is none or a clear_token came after it;
\* and the slot always holds what that latest write left.
C25_Linearizable ==
    [][/\ \A p \in TsThreads :
             (/\ tsCalls.threads[p].pc = "called"
              /\ tsCalls'.threads[p].pc = "returned"
              /\ tsCalls.threads[p].op = "get_token") =>
                tsCalls'.threads[p].res = tsCalls.last
       /\ tokenStore' = tsCalls'.last]_vars

\* C25 witness: a get_token has returned the token t2, which the store_token
\* of another thread wrote and whose call has not yet returned to its thread.
C25_Witness ==
    \E p, q \in TsThreads :
        /\ p # q
        /\ tsCalls.threads[p].pc = "returned"
        /\ tsCalls.threads[p].op = "get_token"
        /\ tsCalls.threads[p].res # None
        /\ tsCalls.threads[p].res[1].token = "t2"
        /\ tsCalls.threads[q].pc = "returned"
        /\ tsCalls.threads[q].op = "store_token"
        /\ tsCalls.threads[q].arg = tsCalls.threads[p].res

\* C26: authenticate stores the returned token only when the login response
\* is 2xx and decodes; a non-2xx response fails with Unauthorized for 401,
\* RateLimitExceeded for 429 and ApiError{status, body} otherwise (the body
\* read as "Unknown error" when it cannot be read), a transport failure with
\* NetworkError; and every failure leaves the token store as it was.
C26_Authenticate ==
    authRes.op = "authenticate" =>
        LET out == authRes.out
            decodes == /\ out.transport
                       /\ out.status \in 200..299
                       /\ out.bodyReadable
                       /\ out.json # <<>>
        IN  /\ decodes =>
                 /\ authRes.res.kind = "Ok"
                 /\ tokenStore = authRes.res.value
                 /\ tokenStore[1] = [token |-> out.json[1].access_token,
                                     expires_at |-> authRes.at + out.json[1].expires_in,
                                     refresh_token |-> <<out.json[1].refresh_token>>]
            /\ ~decodes =>
                 /\ authRes.res.kind # "Ok"
                 /\ tokenStore = authRes.storeBefore
            /\ ~out.transport => authRes.res.kind = "NetworkError"
            /\ (out.transport /\ out.status = 401) => authRes.res.kind = "Unauthorized"
            /\ (out.transport /\ out.status = 429) =>
                 authRes.res.kind = "RateLimitExceeded"
            /\ (out.transport /\ out.status \notin 200..299
                  /\ out.status \notin {401, 429}) =>
                 authRes.res = [kind |-> "ApiError", code |-> ToString(out.status),
                                message |-> IF out.bodyReadable THEN out.text
                                            ELSE "Unknown error",
                                value |-> <<>>]

\* C26 witness: with a token in the store, authenticate was answered 429 and
\* failed with RateLimitExceeded, the stored token still in place.
C26_Witness ==
    /\ authRes.op = "authenticate"
    /\ authRes.out.status = 429
    /\ authRes.res.kind = "RateLimitExceeded"
    /\ authRes.storeBefore # <<>>
    /\ tokenStore = authRes.storeBefore

\* A call of login, authenticate or refresh_token returns an error in this step.
FailedAuthCall ==
    /\ authRes' # authRes
    /\ authRes'.op \in {"login", "authenticate", "refresh_token", "client_refresh_token"}
    /\ authRes'.res.kind # "Ok"

TypedErrors ==
    {"NetworkError", "Unauthorized", "RateLimitExceeded", "ApiError",
     "SerializationError", "InvalidRequest"}

\* C27: a login, authenticate or refresh_token call that fails (transport
\* error, non-2xx status, undecodable body) returns a typed error and leaves
\* the client's token store and its credential store exactly as they were: a
\* valid token stored before stays, and no token or credentials appear.
C27_FailureFrame ==
    [][FailedAuthCall =>
          /\ authRes'.res.kind \in TypedErrors
          /\ UNCHANGED <<tokenStore, client>>]_vars

\* C27 witness: a login failed on a transport error while the client held a
\* valid token and stored credentials, which are still there.
C27_Witness ==
    /\ authRes.op = "login"
    /\ authRes.res.kind = "NetworkError"
    /\ client.present
    /\ client.credentials # <<>>
    /\ tokenStore # <<>>
    /\ tokenStore = authRes.storeBefore
    /\ tokenStore[1].expires_at > now

\* A set or a get of the ResponseCache is made in this step.
C28_SetStep == cacheRes'.op = "set" /\ (cacheRes' # cacheRes \/ cache' # cache)
C28_GetStep == cacheRes'.op = "get" /\ (cacheRes' # cacheRes \/ cache' # cache)
C28_Expired(k) == now - cache[k].created_at > cache[k].ttl

C29_LogoutClears ==
    (authRes.op = "logout" /\ authRes.res.kind = "Ok") =>
        /\ tokenStore = <<>>
        /\ client.credentials = <<>>

\* C30: RateLimiter.wait never fails or aborts, for any configuration and any
\* sequence of calls: no caller of wait panics and the limiter's lock is
\* never poisoned.
C30_NeverAborts ==
    /\ ~poisoned
    /\ \A p \in Callers : waiter[p].pc # "panicked"

\* ------------------------------------------------ the supervisor, continued

\* connect() is called in this step: a supervisor task is spawned.
ConnectStep == \E i \in SupIds : sup[i].pc = "none" /\ sup'[i].pc # "none"

\* C34: once disconnect() has set the attempt counter above
\* max_reconnect_attempts, no step of the supervisor lowers it again, whatever
\* the interleaving of disconnect() with the supervisor's read, increment and
\* reset of the counter: the counter stays above the ceiling until connect()
\* is called again.
C34_CounterStaysAbove ==
    [][(attempts > MaxReconnectAttempts /\ ~ConnectStep)
          => attempts' > MaxReconnectAttempts]_vars

\* C35: the heartbeat ticker of a connection stops when the socket read loop of
\* that connection ends: a ticker is alive only while its supervisor is in the
\* read loop, at most one ticker is alive at any time, and none is alive (and
\* so none emits a Heartbeat event) once Connection{Failed} was emitted.
C35_TickerStops ==
    /\ \A i \in SupIds : hb[i] > 0 => (sup[i].pc = "reading" /\ chan[i].failed = 0)
    /\ \A i, j \in SupIds : (hb[i] > 0 /\ hb[j] > 0) => (i = j /\ hb[i] = 1)

\* C39: a set for a key that is already present replaces the value, the
\* creation time and the TTL of that key and removes no unexpired entry of any
\* other key, even when the cache is at capacity.
C39_OverwriteInPlace ==
    [][(C28_SetStep /\ cacheRes'.key \in DOMAIN cache) =>
          /\ cache'[cacheRes'.key] =
                [value |-> cacheRes'.value, created_at |-> now, ttl |-> cacheRes'.ttl]
          /\ \A k \in (DOMAIN cache) \ {cacheRes'.key} :
                ~C28_Expired(k) => (k \in DOMAIN cache' /\ cache'[k] = cache[k])]_vars

\* C40: a get or a post returns a payload only if get_token succeeded during
\* the call: a get or post that begins while no token is stored, or while the
\* stored token is expired, returns at once with Unauthorized.
C40_TokenGate ==
    [][(/\ CallBegins
        /\ Cached(BegunReq)
        /\ (tokenStore = <<>> \/ tokenStore[1].expires_at <= now)) =>
          /\ CallReturns
          /\ dspRes'.res.kind = "Unauthorized"]_vars

\* ------------------------------------------------ the limiter with a budget above one

\* RateLimiter::new(requests_per_minute) with a budget that admits a second
\* call on a key while a first admission is in the window.
InitRateBudget ==
    /\ now = 0
    /\ IdleAuthVars
    /\ IdleCacheVars
    /\ rpm = MaxRpm + 1
    /\ timestamps = [e \in Endpoints |-> <<>>]
    /\ poisoned = FALSE
    /\ waiter = [p \in Callers |-> IdleWaiter]
    /\ InitDispatchVars
    /\ InitStreamVars

NextRateBudget ==
    \/ Tick
    \/ \E p \in Callers : WaitStart(p) /\ UNCHANGED <<now, authVars, cacheVars, dspVars, streamVars>>
    \/ \E p \in Callers : WaitLocked(p) /\ UNCHANGED <<now, authVars, cacheVars, dspVars, streamVars>>
    \/ \E p \in Callers : WaitWake(p) /\ UNCHANGED <<now, authVars, cacheVars, dspVars, streamVars>>

SpecRateBudget == InitRateBudget /\ [][NextRateBudget]_vars

\* C38: for every key the list of admission timestamps is in chronological
\* (non-decreasing) order at all times, under any interleaving of concurrent
\* wait calls, so that its first element is the oldest admission.
C38_Chronological ==
    \A e \in Endpoints :
        \A i, j \in 1..Len(timestamps[e]) :
            i < j => timestamps[e][i] <= timestamps[e][j]

\* ------------------------------------------------ connect() called again

\* The client on which connect() is called once more than in NextStream, with
\* the supervisors it spawns and disconnect(); the consumers keep their
\* receivers.
NextReconnect ==
    \/ Connect /\ subRes' = NoSubCall /\ UNCHANGED streamFrame
    \/ DisconnectSetState /\ subRes' = NoSubCall /\ UNCHANGED streamFrame
    \/ DisconnectSetAttempts /\ subRes' = NoSubCall /\ UNCHANGED streamFrame
    \/ \E i \in SupIds : SupCheck(i) /\ subRes' = NoSubCall /\ UNCHANGED streamFrame
    \/ \E i \in SupIds : SupEmitFailed(i) /\ subRes' = NoSubCall /\ UNCHANGED streamFrame
    \/ \E i \in SupIds : SupSetFailed(i) /\ subRes' = NoSubCall /\ UNCHANGED streamFrame
    \/ \E i \in SupIds : SupIncrement(i) /\ subRes' = NoSubCall /\ UNCHANGED streamFrame
    \/ \E i \in SupIds : SupToken(i) /\ subRes' = NoSubCall /\ UNCHANGED streamFrame
    \/ \E i \in SupIds : SupHandshake(i) /\ subRes' = NoSubCall /\ UNCHANGED streamFrame
    \/ \E i \in SupIds : SupReset(i) /\ subRes' = NoSubCall /\ UNCHANGED streamFrame
    \/ \E i \in SupIds : SupEmitConnected(i) /\ subRes' = NoSubCall /\ UNCHANGED streamFrame
    \/ \E i \in SupIds : ReadEnd(i) /\ subRes' = NoSubCall /\ UNCHANGED streamFrame
    \/ \E i \in SupIds : SupSetDisconnected(i) /\ subRes' = NoSubCall /\ UNCHANGED streamFrame
    \/ \E i \in SupIds : SupEmitDisconnected(i) /\ subRes' = NoSubCall /\ UNCHANGED streamFrame
    \/ \E i \in SupIds : SupSetReconnecting(i) /\ subRes' = NoSubCall /\ UNCHANGED streamFrame
    \/ \E i \in SupIds : SupEmitReconnecting(i) /\ subRes' = NoSubCall /\ UNCHANGED streamFrame

SpecReconnect == InitStream /\ [][NextReconnect]_vars

\* The supervisor tasks that are running, and the channels that have a Sender.
RunningSupervisors == {i \in SupIds : sup[i].pc \notin {"none", "done"}}
LiveChannels == {i \in SupIds : sup[i].pc # "none" /\ Senders(i) > 0}

\* C33: at any time at most one supervisor task is running for a
\* WebSocketClient and at most one event channel is live, also when connect()
\* is called again, while a supervisor is running or after Failed or
\* disconnect().
C33_OneSupervisor ==
    /\ Cardinality(RunningSupervisors) <= 1
    /\ Cardinality(LiveChannels) <= 1

\* ------------------------------------------------ the events of a connection

InitLogged ==
    /\ now = 0
    /\ IdleAuthVars
    /\ IdleCacheVars
    /\ IdleRateVars
    /\ InitDispatchVars
    /\ InitStreamVarsWith("all")

\* connect() has not been called
NeverConnected == eventSender = 0

\* The supervisor of a client whose token store never holds a token that
\* get_token would return: every get_token of the supervisor fails. connect()
\* is called once, so that the counter is that supervisor's and disconnect()'s.
SupNoToken(i) ==
    \/ SupCheck(i) \/ SupEmitFailed(i) \/ SupSetFailed(i) \/ SupIncrement(i)
    \/ SupTokenFrom(i, UnusableStores(now))

NextNoToken ==
    \/ Tick
    \/ NeverConnected /\ Connect /\ subRes' = NoSubCall /\ UNCHANGED streamFrame
    \/ DisconnectSetState /\ subRes' = NoSubCall /\ UNCHANGED streamFrame
    \/ DisconnectSetAttempts /\ subRes' = NoSubCall /\ UNCHANGED streamFrame
    \/ \E i \in SupIds : SupCheck(i) /\ subRes' = NoSubCall /\ UNCHANGED streamFrame
    \/ \E i \in SupIds : SupEmitFailed(i) /\ subRes' = NoSubCall /\ UNCHANGED streamFrame
    \/ \E i \in SupIds : SupSetFailed(i) /\ subRes' = NoSubCall /\ UNCHANGED streamFrame
    \/ \E i \in SupIds : SupIncrement(i) /\ subRes' = NoSubCall /\ UNCHANGED streamFrame
    \/ \E i \in SupIds : SupTokenFrom(i, UnusableStores(now))
                            /\ subRes' = NoSubCall /\ UNCHANGED streamFrame
    \/ \E i \in SupIds : DropReceiver(i) /\ subRes' = NoSubCall /\ UNCHANGED streamFrame

\* The supervisor is a spawned task: the runtime runs it to its next suspension
\* point, and the reconnect delay it sleeps ends.
FairNoToken ==
    \A i \in SupIds : WF_vars(SupNoToken(i) /\ subRes' = NoSubCall /\ UNCHANGED streamFrame)

SpecNoToken == InitLogged /\ [][NextNoToken]_vars /\ FairNoToken

IsError(e) == e.kind = "Error"

\* the Error events that arrived on channel i
ErrorsLogged(i) == Len(SelectSeq(chan[i].log, IsError))

AuthErrorEvent == [kind |-> "Error", id |-> 0, code |-> "AUTH_ERROR"]

FailedEvent == [kind |-> "Failed", id |-> 0, code |-> ""]

\* C32: on a client on which connect() was called once, a supervisor iteration
\* in which get_token fails sends one Error event
\* (code AUTH_ERROR), attempts no handshake and goes back to the top of the
\* loop (the sleep of the reconnect delay is the suspension inside that step);
\* the counter was incremented before the call and is not given back, so a
\* channel sees at most MaxReconnectAttempts + 1 such events; and with a token
\* that is never valid every running supervisor ends, its last event, if the
\* receiver is still there, being Connection{Failed}.
C32_AuthFailureLoop ==
    /\ [][\A i \in SupIds :
            (sup[i].pc = "token" /\ sup'[i].pc # "token") =>
                /\ sup'[i].pc = "check"
                /\ accepts' = accepts /\ connState' = connState /\ attempts' = attempts
                /\ attempts >= 1
                /\ chan'[i].log = IF chan[i].rx THEN Append(chan[i].log, AuthErrorEvent)
                                  ELSE chan[i].log]_vars
    /\ [](\A i \in SupIds :
            /\ ErrorsLogged(i) <= MaxReconnectAttempts + 1
            /\ (sup[i].pc = "done" /\ chan[i].rx) =>
                  chan[i].log[Len(chan[i].log)] = FailedEvent)
    /\ \A i \in SupIds : (sup[i].pc \notin {"none", "done"}) ~> (sup[i].pc = "done")

\* A supervisor has ended after MaxReconnectAttempts + 1 iterations in each of
\* which get_token failed: the channel got that many Error events and then
\* Connection{Failed}, and no handshake was attempted.
C32_Witness ==
    \E i \in SupIds :
        /\ sup[i].pc = "done" /\ chan[i].rx /\ connState = "Failed" /\ accepts = 0
        /\ Len(chan[i].log) = MaxReconnectAttempts + 2
        /\ \A k \in 1..(MaxReconnectAttempts + 1) : chan[i].log[k] = AuthErrorEvent
        /\ chan[i].log[MaxReconnectAttempts + 2] = FailedEvent

\* ------------------------------------------------ the read loop, frame by frame

\* A client of which the last event and the last turn of the read loop are
\* kept, and on which connect() is called once; time passes, and the heartbeat
\* task sends when line 371 says so.
InitLastSeen ==
    /\ now = 0
    /\ IdleAuthVars
    /\ IdleCacheVars
    /\ IdleRateVars
    /\ InitDispatchVars
    /\ InitStreamVarsWith("last")

NextReadLoop ==
    \/ Tick
    \/ NeverConnected /\ Connect /\ subRes' = NoSubCall /\ UNCHANGED streamFrame
    \/ \E i \in SupIds : SupCheck(i) /\ subRes' = NoSubCall /\ UNCHANGED streamFrame
    \/ \E i \in SupIds : SupEmitFailed(i) /\ subRes' = NoSubCall /\ UNCHANGED streamFrame
    \/ \E i \in SupIds : SupSetFailed(i) /\ subRes' = NoSubCall /\ UNCHANGED streamFrame
    \/ \E i \in SupIds : SupIncrement(i) /\ subRes' = NoSubCall /\ UNCHANGED streamFrame
    \/ \E i \in SupIds : SupToken(i) /\ subRes' = NoSubCall /\ UNCHANGED streamFrame
    \/ \E i \in SupIds : SupHandshake(i) /\ subRes' = NoSubCall /\ UNCHANGED streamFrame
    \/ \E i \in SupIds : SupReset(i) /\ subRes' = NoSubCall /\ UNCHANGED streamFrame
    \/ \E i \in SupIds : SupEmitConnected(i) /\ subRes' = NoSubCall /\ UNCHANGED streamFrame
    \/ \E i \in SupIds : ReadFrame(i) /\ subRes' = NoSubCall /\ UNCHANGED streamFrame
    \/ \E i \in SupIds : ReadEnd(i) /\ subRes' = NoSubCall /\ UNCHANGED streamFrame
    \/ \E i \in SupIds : SupSetDisconnected(i) /\ subRes' = NoSubCall /\ UNCHANGED streamFrame
    \/ \E i \in SupIds : SupEmitDisconnected(i) /\ subRes' = NoSubCall /\ UNCHANGED streamFrame
    \/ \E i \in SupIds : SupSetReconnecting(i) /\ subRes' = NoSubCall /\ UNCHANGED streamFrame
    \/ \E i \in SupIds : SupEmitReconnecting(i) /\ subRes' = NoSubCall /\ UNCHANGED streamFrame
    \/ \E i \in SupIds : HeartbeatDue(lastHeartbeat, now) /\ HeartbeatTick(i)
                            /\ subRes' = NoSubCall /\ UNCHANGED streamFrame
    \/ \E i \in SupIds : DropReceiver(i) /\ subRes' = NoSubCall /\ UNCHANGED streamFrame

SpecReadLoop == InitLastSeen /\ [][NextReadLoop]_vars

DataEvent == [kind |-> "Data", id |-> 0, code |-> ""]

ErrorEvent(code) == [kind |-> "Error", id |-> 0, code |-> code]

PongWritten == [dir |-> "out", frame |-> "pong"]

\* C36: one turn of the read loop. A text frame that decodes is sent on as its
\* event; one that does not decode sends an Error event with code PARSE_ERROR
\* and the loop goes on; a ping is answered with a pong (or, the pong failing,
\* with an Error event with code PONG_ERROR) and sets last_heartbeat to the
\* time of the turn; a pong sets last_heartbeat; binary and raw frames are
\* ignored; a close frame, the end of the stream and a read error (which sends
\* an Error event with code WS_ERROR) end the loop, and so does a send on the
\* event channel whose receiver is gone. After the loop the supervisor sets
\* Disconnected, sends Connection{Disconnected}, sleeps, sets Reconnecting,
\* sends Connection{Reconnecting} and is back at the top of its loop.
C36_ReadLoop ==
    [][\A i \in SupIds :
        /\ (sup[i].pc = "reading" /\ wire'[i] # wire[i]) =>
            LET f == wire'[i][1].frame
                rx == chan[i].rx
                log == chan[i].log
                log2 == chan'[i].log
                pc2 == sup'[i].pc
                answered == wire'[i] = << [dir |-> "in", frame |-> "ping"], PongWritten >>
            IN  /\ f = "text" =>
                      /\ rx => (log2 = << DataEvent >> /\ pc2 = "reading")
                      /\ ~rx => (log2 = log /\ pc2 = "set_disc")
                      /\ lastHeartbeat' = lastHeartbeat
                /\ f = "garbage" =>
                      /\ rx => (log2 = << ErrorEvent("PARSE_ERROR") >> /\ pc2 = "reading")
                      /\ ~rx => (log2 = log /\ pc2 = "set_disc")
                      /\ lastHeartbeat' = lastHeartbeat
                /\ f = "ping" =>
                      \/ answered /\ log2 = log /\ lastHeartbeat' = now /\ pc2 = "reading"
                      \/ /\ ~answered /\ rx /\ log2 = << ErrorEvent("PONG_ERROR") >>
                         /\ lastHeartbeat' = now /\ pc2 = "reading"
                      \/ /\ ~answered /\ ~rx /\ log2 = log
                         /\ lastHeartbeat' = lastHeartbeat /\ pc2 = "set_disc"
                /\ f = "pong" => (log2 = log /\ lastHeartbeat' = now /\ pc2 = "reading")
                /\ f \in {"binary", "frame"} =>
                      (log2 = log /\ lastHeartbeat' = lastHeartbeat /\ pc2 = "reading")
                /\ f \in {"close", "end"} =>
                      (log2 = log /\ lastHeartbeat' = lastHeartbeat /\ pc2 = "set_disc")
                /\ f = "error" =>
                      /\ log2 = IF rx THEN << ErrorEvent("WS_ERROR") >> ELSE log
                      /\ lastHeartbeat' = lastHeartbeat /\ pc2 = "set_disc"
                /\ f # "ping" => Len(wire'[i]) = 1
                /\ connState' = connState /\ attempts' = attempts
        /\ (sup[i].pc = "set_disc" /\ sup'[i].pc # "set_disc") =>
              (sup'[i].pc = "emit_disc" /\ connState' = "Disconnected")
        /\ (sup[i].pc = "emit_disc" /\ sup'[i].pc # "emit_disc") => sup'[i].pc = "sleep"
        /\ (sup[i].pc = "sleep" /\ sup'[i].pc # "sleep") =>
              (sup'[i].pc = "emit_reconn" /\ connState' = "Reconnecting")
        /\ (sup[i].pc = "emit_reconn" /\ sup'[i].pc # "emit_reconn") => sup'[i].pc = "check"]_vars

\* A ping was answered with a pong at a time later than the start, with no
\* event sent since Connection{Connected}; last_heartbeat is the time of the
\* ping, and the loop goes on.
C36_Witness ==
    \E i \in SupIds :
        /\ wire[i] = << [dir |-> "in", frame |-> "ping"], PongWritten >>
        /\ chan[i].rx /\ chan[i].log[1].kind = "Connected"
        /\ lastHeartbeat > 0 /\ lastHeartbeat = now
        /\ sup[i].pc = "reading" /\ connState = "Connected"

\* ------------------------------------------------ the caches of a CacheManager

\* The types get_cache is called for
CacheTypes == {"Payload", "List"}

\* CacheManager::get_cache::<T>(name), lines 203-228. The observer notes the
\* type that was registered under the name and whether that cache held entries.
ManagerGetCache ==
    \E name \in DOMAIN registry, type \in CacheTypes :
        LET gc == GetCache(cache, registry, name, type)
        IN  /\ cache' = gc.cache
            /\ registry' = gc.registry
            /\ cacheRes' = [op |-> "get_cache", name |-> name, type |-> type,
                            was |-> registry[name],
                            held |-> EntriesOf(cache, name) # {}]
            /\ UNCHANGED <<maxEntries, defaultTtl>>

\* set(...) on the cache registered under the name of the key, as get and post
\* call it on the handle that get_cache returned
HandleSet ==
    \E k \in CacheKeys, v \in CacheValues :
        /\ registry[NameOf(k.method)] # "none"
        /\ \E c \in AfterEviction(cache, maxEntries, now) :
              cache' = Insert(c, k, CacheEntry(v, ResponseTtl, now))
        /\ cacheRes' = CacheCall("set", k, v, ResponseTtl, None)
        /\ UNCHANGED <<maxEntries, defaultTtl, registry>>

\* get(...) on the cache registered under the name of the key
HandleGet ==
    \E k \in CacheKeys :
        LET g == CacheGet(cache, k, now)
        IN  /\ registry[NameOf(k.method)] # "none"
            /\ cache' = g.cache
            /\ cacheRes' = CacheCall("get", k, "", 0, g.res)
            /\ UNCHANGED <<maxEntries, defaultTtl, registry>>

\* A CacheManager on its own, and the caches it hands out.
InitCacheManager ==
    /\ now = 0
    /\ IdleAuthVars
    /\ InitDispatchCacheVars
    /\ IdleRateVars
    /\ InitDispatchVars
    /\ InitStreamVars

NextCacheManager ==
    \/ ManagerGetCache /\ UNCHANGED <<now, authVars, rateVars, dspVars, streamVars>>
    \/ HandleSet /\ UNCHANGED <<now, authVars, rateVars, dspVars, streamVars>>
    \/ HandleGet /\ UNCHANGED <<now, authVars, rateVars, dspVars, streamVars>>

SpecCacheManager == InitCacheManager /\ [][NextCacheManager]_vars

\* C37: get_cache(name) for a type returns the cache registered under the name,
\* with its entries, exactly when that cache was made for the same type, that
\* is when the latest get_cache(name) was for that type: then nothing changes.
\* When the registered cache is of another type (or none is registered), a new
\* empty cache of the requested type is registered in its place: the name has
\* no entries any more, so what was cached for the earlier type cannot be
\* found, and the caches under the other names are left alone.
C37_GetCacheByType ==
    /\ [][(cacheRes'.op = "get_cache" /\ cacheRes' # cacheRes) =>
            LET name == cacheRes'.name
                type == cacheRes'.type
            IN  /\ registry'[name] = type
                /\ \A n \in (DOMAIN registry) \ {name} : registry'[n] = registry[n]
                /\ \A k \in (DOMAIN cache) \ EntriesOf(cache, name) :
                      k \in DOMAIN cache' /\ cache'[k] = cache[k]
                /\ registry[name] = type => cache' = cache
                /\ registry[name] # type => EntriesOf(cache', name) = {}]_vars
    /\ [](cacheRes.op = "get_cache" =>
            /\ registry[cacheRes.name] = cacheRes.type
            /\ (cacheRes.was # cacheRes.type) => EntriesOf(cache, cacheRes.name) = {})

\* get_cache has just been called for a type other than the one of the cache
\* registered under the name, which held entries: the name is registered for
\* the new type and has no entries, and a get of a key that was cached misses.
C37_Witness ==
    /\ cacheRes.op = "get_cache"
    /\ cacheRes.was \notin {"none", cacheRes.type} /\ cacheRes.held
    /\ registry[cacheRes.name] = cacheRes.type
    /\ EntriesOf(cache, cacheRes.name) = {}
    /\ \A k \in CacheKeys : NameOf(k.method) = cacheRes.name => CacheGet(cache, k, now).res = None
====
